---- MODULE Spec2Model ----
(***************************************************************************)
(* Model of the redaction pipeline of src/app/api/redact-pdf/route.ts:     *)
(* mergeEntities (the EntityMerger) and                                    *)
(* convertEntitiesToRedactionCoordinates (the CoordinateMapper).           *)
(*                                                                         *)
(* Lengths and coordinates are integers.  Page coordinates are counted in  *)
(* hundredths of a page unit, so that the padding 0.02 is the integer 2;   *)
(* floating-point rounding of the JavaScript numbers is not modelled.      *)
(***************************************************************************)
EXTENDS Integers, Sequences, FiniteSets, TLC

VARIABLES
    azureEntities,   \* mergeEntities: the NER list handed in
    customEntities,  \* mergeEntities: the pattern list handed in
    merged,          \* mergeEntities: the returned list
    mergePc,         \* "input" before the call, "merged" after it
    entities,        \* convertEntitiesToRedactionCoordinates: the entity list
    pages,           \* docIntelResult.pages
    redactions,      \* the returned region list
    mapPc,           \* "input" before the call, "mapped" after it
    content,         \* detectSignaturesFromStyles: docIntelResult.content
    styles,          \* docIntelResult.styles
    sigPages,        \* docIntelResult.pages as detectSignaturesFromStyles reads them
    signatures,      \* the returned signature regions
    sigPc,           \* "input" before the call, "detected" after it
    unfiltered,      \* the entity filter: the merged entities it is given
    excludeAddress,  \* fields.excludeAddress: given or not, and its text
    filteredEntities, \* the entities the filter keeps
    filterLog,       \* per entity: its normalized text and the rule that decided
    filterPc,        \* "input" before the filter, "filtered" after it
    piiTextLength,   \* detectPII: text.length
    chunkOffset,     \* the offset of the chunk loop
    allEntities,     \* the entities pushed by the chunk loop
    piiRequests,     \* the requests sent so far and what each answered
    piiEntities,     \* the list detectPII returned
    piiPc,           \* "detecting", then "returned" or "thrown", then "responded"
    response,        \* what POST answers: its status and the NER list it went on with
    pdfBuffer,       \* extractTextWithAzureDocIntel: the document sent
    ocrStatus,       \* the status of the polling loop
    ocrPolls,        \* the status requests sent so far, counted up to MaxPolls
    ocrOutcome,      \* what the call returned or threw
    ocrPc,           \* "submit", "waiting", "polling", then "returned" or "thrown"
    uploadedFiles,   \* POST: the files of the request
    fileIndex,       \* the file the per-file loop is at
    current,         \* the values of the file in work and its stages so far
    fileResults,     \* the results pushed so far
    totalEntities,   \* the entities kept, summed over the files
    postFailure,     \* the step that threw, if one did
    postResponse,    \* what POST answers
    postPc,          \* the next step of POST
    patternText,     \* detectCustomPatterns: the text scanned
    customFound,     \* the entities it returned
    patternPc,       \* "input" before the call, "scanned" after it
    files,           \* the upload page: the file list
    error,           \* its error message, or "null"
    draggedIndex,    \* FileList: whether an item is being dragged, and its index
    logEntries       \* HTTPLogTransport: per log entry, how far log and sendLog have come

mergeVars == <<azureEntities, customEntities, merged, mergePc>>
mapVars == <<entities, pages, redactions, mapPc>>
sigVars == <<content, styles, sigPages, signatures, sigPc>>
filterVars == <<unfiltered, excludeAddress, filteredEntities, filterLog, filterPc>>
piiVars == <<piiTextLength, chunkOffset, allEntities, piiRequests, piiEntities, piiPc, response>>
ocrVars == <<pdfBuffer, ocrStatus, ocrPolls, ocrOutcome, ocrPc>>
postVars == <<uploadedFiles, fileIndex, current, fileResults, totalEntities, postFailure, postResponse, postPc>>
patternVars == <<patternText, customFound, patternPc>>
pageVars == <<files, error, draggedIndex>>
logVars == <<logEntries>>
vars == <<azureEntities, customEntities, merged, mergePc, entities, pages, redactions, mapPc,
          content, styles, sigPages, signatures, sigPc,
          unfiltered, excludeAddress, filteredEntities, filterLog, filterPc,
          piiTextLength, chunkOffset, allEntities, piiRequests, piiEntities, piiPc, response,
          pdfBuffer, ocrStatus, ocrPolls, ocrOutcome, ocrPc,
          uploadedFiles, fileIndex, current, fileResults, totalEntities, postFailure, postResponse, postPc,
          patternText, customFound, patternPc,
          files, error, draggedIndex,
          logEntries>>

-----------------------------------------------------------------------------
(* Bounds of the merge model *)

\* length of the document text the merged entities index into
TextLen == 2
\* largest number of entities in the NER list and the pattern list together
MaxEntities == 3

-----------------------------------------------------------------------------
(* Entities *)

\* the characters of the document text at [offset, offset + length), each
\* character standing for its own position
textAt(offset, length) == [i \in 1..length |-> offset + i]

\* PIIEntity; src is the list the object was handed in with (its identity in
\* the code: the merged array holds the very objects of the two input arrays)
PIIEntity(src, category, offset, length) ==
    [text |-> textAt(offset, length),
     category |-> category, offset |-> offset, length |-> length, src |-> src]

AzureCategories == {"Organization", "PhoneNumber", "InternationalBankingAccountNumber", "Person"}
CustomCategories == {"Occupation", "DEBankCode", "Email"}

\* every span of the text: offset >= 0, length > 0, offset + length <= len(text)
Spans == {s \in (0..(TextLen - 1)) \X (1..TextLen) : s[1] + s[2] <= TextLen}

AzureEntitySet == {PIIEntity("azure", c, s[1], s[2]) : c \in AzureCategories, s \in Spans}
CustomEntitySet == {PIIEntity("custom", c, s[1], s[2]) : c \in CustomCategories, s \in Spans}

-----------------------------------------------------------------------------
(* mergeEntities *)

\* (customStart < azureEnd && customEnd > azureStart)
hasOverlap(customEntity, azureEntity) ==
    /\ customEntity.offset < azureEntity.offset + azureEntity.length
    /\ customEntity.offset + customEntity.length > azureEntity.offset

\* merged.findIndex(e => e.offset === .. && e.length === .. && e.category === cat),
\* 0 for -1
RECURSIVE findIndexFrom(_, _, _, _)
findIndexFrom(list, azureEntity, category, i) ==
    IF i > Len(list) THEN 0
    ELSE IF /\ list[i].offset = azureEntity.offset
            /\ list[i].length = azureEntity.length
            /\ list[i].category = category
         THEN i
         ELSE findIndexFrom(list, azureEntity, category, i + 1)

findIndex(list, azureEntity, category) == findIndexFrom(list, azureEntity, category, 1)

\* merged.splice(indexToRemove, 1)
splice(list, indexToRemove) ==
    SubSeq(list, 1, indexToRemove - 1) \o SubSeq(list, indexToRemove + 1, Len(list))

\* a priority rule that lets the custom entity in without removing anything
removeNothing(list, azureEntity, category) == list

\* the body shared by the three priority rules: find the entity, splice it out
\* if it is there
removeFromMerged(list, azureEntity, category) ==
    LET indexToRemove == findIndex(list, azureEntity, category)
    IN  IF indexToRemove # 0 THEN splice(list, indexToRemove) ELSE list

\* a callback whose second rule forgets to test the category of the NER entity
RECURSIVE someBankCodeBeatsAll(_, _, _, _)
someBankCodeBeatsAll(azure, customEntity, list, i) ==
    IF i > Len(azure) THEN [overlaps |-> FALSE, merged |-> list]
    ELSE LET azureEntity == azure[i]
             overlap == hasOverlap(customEntity, azureEntity)
         IN  IF overlap /\ customEntity.category = "Occupation"
                        /\ azureEntity.category = "Organization"
             THEN someBankCodeBeatsAll(azure, customEntity,
                       removeFromMerged(list, azureEntity, "Organization"), i + 1)
             ELSE IF overlap /\ customEntity.category = "DEBankCode"
             THEN someBankCodeBeatsAll(azure, customEntity,
                       removeFromMerged(list, azureEntity, azureEntity.category), i + 1)
             ELSE IF overlap
             THEN [overlaps |-> TRUE, merged |-> list]
             ELSE someBankCodeBeatsAll(azure, customEntity, list, i + 1)

\* azureEntities.some(callback) for one custom entity, from index i on: the
\* callback's return value ends the iteration when it is true, and the
\* callback splices the merged array as it goes.
RECURSIVE some(_, _, _, _)
some(azure, customEntity, list, i) ==
    IF i > Len(azure) THEN [overlaps |-> FALSE, merged |-> list]
    ELSE LET azureEntity == azure[i]
             overlap == hasOverlap(customEntity, azureEntity)
         IN  IF overlap /\ customEntity.category = "Occupation"
                        /\ azureEntity.category = "Organization"
             THEN some(azure, customEntity,
                       removeFromMerged(list, azureEntity, "Organization"), i + 1)
             ELSE IF overlap /\ customEntity.category = "DEBankCode"
                             /\ azureEntity.category = "PhoneNumber"
             THEN some(azure, customEntity,
                       removeFromMerged(list, azureEntity, "PhoneNumber"), i + 1)
             ELSE IF overlap /\ customEntity.category = "DEBankCode"
                             /\ azureEntity.category = "InternationalBankingAccountNumber"
             THEN some(azure, customEntity,
                       removeFromMerged(list, azureEntity,
                                        "InternationalBankingAccountNumber"), i + 1)
             ELSE IF overlap
             THEN [overlaps |-> TRUE, merged |-> list]
             ELSE some(azure, customEntity, list, i + 1)

\* customEntities.forEach(...), from index j on
RECURSIVE forEachCustom(_, _, _, _)
forEachCustom(azure, custom, list, j) ==
    IF j > Len(custom) THEN list
    ELSE LET r == some(azure, custom[j], list, 1)
         IN  forEachCustom(azure, custom,
                           IF ~r.overlaps THEN Append(r.merged, custom[j]) ELSE r.merged,
                           j + 1)

\* insertion of e after the last element whose offset is not larger
RECURSIVE insertByOffset(_, _)
insertByOffset(sorted, e) ==
    IF sorted = <<>> THEN <<e>>
    ELSE IF sorted[Len(sorted)].offset <= e.offset
         THEN Append(sorted, e)
         ELSE Append(insertByOffset(SubSeq(sorted, 1, Len(sorted) - 1), e),
                     sorted[Len(sorted)])

RECURSIVE sortPrefix(_, _)
sortPrefix(list, n) ==
    IF n = 0 THEN <<>> ELSE insertByOffset(sortPrefix(list, n - 1), list[n])

\* a merge that forgets to sort
noSort(list) == list

\* merged.sort((a, b) => a.offset - b.offset): Array.prototype.sort is stable
sortByOffset(list) == sortPrefix(list, Len(list))

\* mergeEntities(azureEntities, customEntities): merged starts as a copy of
\* the NER list, so the caller's array is not touched
mergeEntities(azure, custom) ==
    sortByOffset(forEachCustom(azure, custom, azure, 1))

\* a merge that works on the caller's array instead of on a copy of it
mergeEntitiesInPlace(azure, custom) ==
    [azureEntities |-> mergeEntities(azure, custom),
     customEntities |-> custom,
     merged |-> mergeEntities(azure, custom)]

\* the three arrays after the call mergeEntities(azure, custom): splice, push
\* and sort act on merged = [...azureEntities], never on the arguments
mergeEntitiesCall(azure, custom) ==
    [azureEntities |-> azure,
     customEntities |-> custom,
     merged |-> mergeEntities(azure, custom)]

-----------------------------------------------------------------------------
(* The merge as a state machine: the inputs are drawn, then merged *)

\* the pairs (NER list, pattern list) of at most MaxEntities entities together
MergeInputs ==
    UNION {[1..nk[1] -> AzureEntitySet] \X [1..nk[2] -> CustomEntitySet] :
              nk \in {x \in (0..MaxEntities) \X (0..MaxEntities) : x[1] + x[2] <= MaxEntities}}

LogIdle ==
    /\ logEntries = <<>>

PageIdle ==
    /\ files = <<>>
    /\ error = "null"
    /\ draggedIndex = [dragging |-> FALSE, index |-> 0]

PatternIdle ==
    /\ patternText = <<>>
    /\ customFound = <<>>
    /\ patternPc = "idle"

PostIdle ==
    /\ uploadedFiles = <<>>
    /\ fileIndex = 0
    /\ current = [stages |-> <<>>, kept |-> 0, piiRedactions |-> <<>>, signatureRedactions |-> <<>>]
    /\ fileResults = <<>>
    /\ totalEntities = 0
    /\ postFailure = "none"
    /\ postResponse = [status |-> 0]
    /\ postPc = "idle"

OCRIdle ==
    /\ pdfBuffer = "none"
    /\ ocrStatus = "running"
    /\ ocrPolls = 0
    /\ ocrOutcome = [kind |-> "pending", value |-> "none"]
    /\ ocrPc = "idle"

PIIIdle ==
    /\ piiTextLength = 0
    /\ chunkOffset = 0
    /\ allEntities = <<>>
    /\ piiRequests = <<>>
    /\ piiEntities = <<>>
    /\ piiPc = "idle"
    /\ response = [status |-> 0, azureEntities |-> <<>>]

FilterIdle ==
    /\ unfiltered = <<>>
    /\ excludeAddress = [given |-> FALSE, text |-> <<>>]
    /\ filteredEntities = <<>>
    /\ filterLog = <<>>
    /\ filterPc = "idle"

SigIdle ==
    /\ content = <<>>
    /\ styles = <<>>
    /\ sigPages = <<>>
    /\ signatures = <<>>
    /\ sigPc = "idle"

MapIdle ==
    /\ entities = <<>>
    /\ pages = <<>>
    /\ redactions = <<>>
    /\ mapPc = "idle"

InitMerge ==
    /\ \E in \in MergeInputs :
        /\ azureEntities = in[1]
        /\ customEntities = in[2]
    /\ merged = <<>>
    /\ mergePc = "input"
    /\ MapIdle
    /\ SigIdle
    /\ FilterIdle
    /\ PIIIdle
    /\ OCRIdle
    /\ PostIdle
    /\ PatternIdle
    /\ PageIdle
    /\ LogIdle

Merge ==
    /\ mergePc = "input"
    /\ LET after == mergeEntitiesCall(azureEntities, customEntities)
       IN  /\ merged' = after.merged
           /\ azureEntities' = after.azureEntities
           /\ customEntities' = after.customEntities
    /\ mergePc' = "merged"
    /\ UNCHANGED mapVars
    /\ UNCHANGED sigVars
    /\ UNCHANGED filterVars
    /\ UNCHANGED piiVars
    /\ UNCHANGED ocrVars
    /\ UNCHANGED postVars
    /\ UNCHANGED patternVars
    /\ UNCHANGED pageVars
    /\ UNCHANGED logVars

NextMerge == Merge

SpecMerge == InitMerge /\ [][NextMerge]_vars

-----------------------------------------------------------------------------
(* Vocabulary of the merge properties *)

Range(list) == {list[i] : i \in DOMAIN list}

\* how often e occurs in list
Count(list, e) == Cardinality({i \in DOMAIN list : list[i] = e})

\* list in the order p, a permutation of its indices
Permuted(list, p) == [i \in DOMAIN list |-> list[p[i]]]

Orders(list) == Permutations(DOMAIN list)

\* the three category pairs in which the pattern entity beats the NER entity
PriorityPair(customEntity, azureEntity) ==
    \/ customEntity.category = "Occupation" /\ azureEntity.category = "Organization"
    \/ customEntity.category = "DEBankCode" /\ azureEntity.category = "PhoneNumber"
    \/ /\ customEntity.category = "DEBankCode"
       /\ azureEntity.category = "InternationalBankingAccountNumber"

SortedByOffset(list) ==
    \A i, j \in DOMAIN list : i < j => list[i].offset <= list[j].offset

\* two entities overlap, half-open interval test
Overlapping(e, f) == e.offset < f.offset + f.length /\ e.offset + e.length > f.offset

Merged == mergePc = "merged"

-----------------------------------------------------------------------------
(* C1: merging with any permutation of the pattern list returns the       *)
(* identical output sequence.                                              *)
C1_PatternOrderIndependent ==
    Merged => \A p \in Orders(customEntities) :
                  mergeEntities(azureEntities, Permuted(customEntities, p)) = merged

(* C2 as claimed: no two output entities of the same source overlap.       *)
C2_NoSameSourceOverlap ==
    Merged => \A i, j \in DOMAIN merged :
                  (i < j /\ merged[i].src = merged[j].src)
                      => ~Overlapping(merged[i], merged[j])

(* C2 as amended: no output entity of the pattern list overlaps an output  *)
(* entity of the NER list; overlaps are removed across the sources only.   *)
C2_NoCrossSourceOverlap ==
    Merged => \A i, j \in DOMAIN merged :
                  (merged[i].src = "custom" /\ merged[j].src = "azure")
                      => ~hasOverlap(merged[i], merged[j])

\* a conflict between the sources was resolved in favour of two pattern
\* entities, which overlap each other in the output
C2_Witness ==
    /\ Merged
    /\ \E a \in Range(azureEntities) : a \notin Range(merged)
    /\ \E i, j \in DOMAIN merged :
          /\ i < j
          /\ merged[i].src = "custom" /\ merged[j].src = "custom"
          /\ Overlapping(merged[i], merged[j])

(* C3: whenever an NER entity of the input is missing from the output, a   *)
(* pattern entity that overlaps it in a priority pair is in the output.    *)
C3_RemovalAdmitsPattern ==
    Merged => \A a \in Range(azureEntities) :
                  Count(merged, a) < Count(azureEntities, a)
                      => \E c \in Range(merged) :
                             /\ c.src = "custom"
                             /\ hasOverlap(c, a)
                             /\ PriorityPair(c, a)

(* C4: every ordering of the NER list yields the same set of output        *)
(* entities.                                                               *)
C4_NerOrderIndependent ==
    Merged => \A p \in Orders(azureEntities) :
                  Range(mergeEntities(Permuted(azureEntities, p), customEntities))
                      = Range(merged)

(* C5: mergeEntities(ner, []) returns exactly the entities of ner (same    *)
(* multiset) in ascending order of offset and leaves ner as it was.        *)
C5_EmptyPatternList ==
    [][(mergePc = "input" /\ customEntities = <<>>)
          => /\ SortedByOffset(merged')
             /\ Len(merged') = Len(azureEntities)
             /\ \A e \in Range(azureEntities) \cup Range(merged') :
                    Count(merged', e) = Count(azureEntities, e)
             /\ azureEntities' = azureEntities]_vars

\* an NER list that was not in offset order has been merged with no patterns
C5_Witness ==
    /\ Merged
    /\ customEntities = <<>>
    /\ Len(azureEntities) >= 2
    /\ ~SortedByOffset(azureEntities)
    /\ merged # azureEntities

(* C6: the list returned by mergeEntities is sorted by non-decreasing      *)
(* offset.                                                                 *)
C6_SortedByOffset == Merged => SortedByOffset(merged)

\* an admitted pattern entity stands before an NER entity of larger offset
C6_Witness ==
    /\ Merged
    /\ \E i, j \in DOMAIN merged :
          /\ i < j
          /\ merged[i].src = "custom" /\ merged[j].src = "azure"
          /\ merged[i].offset < merged[j].offset

(* C7: a pattern entity that overlaps an NER entity outside the priority   *)
(* pairs is not in the output; an NER entity that overlaps pattern         *)
(* entities only outside the priority pairs is kept; a pattern entity      *)
(* that overlaps no NER entity is in the output.                           *)
C7_NerWinsByDefault ==
    Merged =>
      /\ \A c \in Range(customEntities) :
            (\E a \in Range(azureEntities) : hasOverlap(c, a) /\ ~PriorityPair(c, a))
                => c \notin Range(merged)
      /\ \A a \in Range(azureEntities) :
            (\A c \in Range(customEntities) : hasOverlap(c, a) => ~PriorityPair(c, a))
                => Count(merged, a) = Count(azureEntities, a)
      /\ \A c \in Range(customEntities) :
            (\A a \in Range(azureEntities) : ~hasOverlap(c, a))
                => Count(merged, c) = Count(customEntities, c)

\* one pattern entity lost against an NER entity that was kept, another one
\* overlapped nothing and was added
C7_Witness ==
    /\ Merged
    /\ \E c \in Range(customEntities), a \in Range(azureEntities) :
          /\ hasOverlap(c, a) /\ ~PriorityPair(c, a)
          /\ c \notin Range(merged)
          /\ a \in Range(merged)
    /\ \E c \in Range(customEntities) :
          /\ \A a \in Range(azureEntities) : ~hasOverlap(c, a)
          /\ c \in Range(merged)


-----------------------------------------------------------------------------
(* Bounds of the coordinate-mapping model *)

\* length of the document text of the mapped document
MapTextLen == 2
\* largest number of OCR words of the document
MaxWords == 2
\* largest number of pages of the document
MaxPages == 2
\* largest number of entities handed to the mapper
MaxMapEntities == 2

-----------------------------------------------------------------------------
(* convertEntitiesToRedactionCoordinates *)

\* const PADDING_INCH = 0.02, in hundredths of a page unit
PADDING_INCH == 2

\* the factor of the conversion from inches to points
POINTS_PER_INCH == 72

SetMin(S) == CHOOSE m \in S : \A n \in S : m <= n
SetMax(S) == CHOOSE m \in S : \A n \in S : m >= n

\* Math.min(...coords) and Math.max(...coords) of four numbers
min2(a, b) == IF a <= b THEN a ELSE b
max2(a, b) == IF a >= b THEN a ELSE b
min4(c) == min2(min2(c[1], c[2]), min2(c[3], c[4]))
max4(c) == max2(max2(c[1], c[2]), max2(c[3], c[4]))

\* docIntelResult.pages.forEach((page, pageIndex) => page.words.forEach(...)),
\* pageIndex counted from 0; from page p on
RECURSIVE collectWords(_, _)
collectWords(docPages, p) ==
    IF p > Len(docPages) THEN <<>>
    ELSE [i \in DOMAIN docPages[p].words |->
              [word |-> docPages[p].words[i], pageIndex |-> p - 1]]
         \o collectWords(docPages, p + 1)

RECURSIVE insertBySpanOffset(_, _)
insertBySpanOffset(sorted, item) ==
    IF sorted = <<>> THEN <<item>>
    ELSE IF sorted[Len(sorted)].word.span.offset <= item.word.span.offset
         THEN Append(sorted, item)
         ELSE Append(insertBySpanOffset(SubSeq(sorted, 1, Len(sorted) - 1), item),
                     sorted[Len(sorted)])

RECURSIVE sortWordsPrefix(_, _)
sortWordsPrefix(list, n) ==
    IF n = 0 THEN <<>> ELSE insertBySpanOffset(sortWordsPrefix(list, n - 1), list[n])

\* allWords, after allWords.sort((a, b) => a.word.span.offset - b.word.span.offset)
allWords(docPages) ==
    LET collected == collectWords(docPages, 1)
    IN  sortWordsPrefix(collected, Len(collected))

\* a filter that takes the spans as closed intervals
wordOverlapsClosed(entity, item) ==
    /\ item.word.span.offset <= entity.offset + entity.length
    /\ item.word.span.offset + item.word.span.length >= entity.offset

\* the filter callback: (wordStart < entityEnd && wordEnd > entityStart)
wordOverlaps(entity, item) ==
    /\ item.word.span.offset < entity.offset + entity.length
    /\ item.word.span.offset + item.word.span.length > entity.offset

\* allWords.filter(...)
relevantWords(entity, words) == SelectSeq(words, LAMBDA item : wordOverlaps(entity, item))

\* a box padded on all four sides without the clamp at the page origin
paddedBoxUnclamped(polygon) ==
    LET xCoords == <<polygon[1], polygon[3], polygon[5], polygon[7]>>
        yCoords == <<polygon[2], polygon[4], polygon[6], polygon[8]>>
    IN  [x |-> min4(xCoords) - PADDING_INCH,
         y |-> min4(yCoords) - PADDING_INCH,
         w |-> max4(xCoords) - min4(xCoords) + 2 * PADDING_INCH,
         h |-> max4(yCoords) - min4(yCoords) + 2 * PADDING_INCH]

\* the bounding box of the polygon with the padding added: x, y, w, h before
\* the unit conversion
paddedBox(polygon) ==
    LET xCoords == <<polygon[1], polygon[3], polygon[5], polygon[7]>>
        yCoords == <<polygon[2], polygon[4], polygon[6], polygon[8]>>
        minX == max2(0, min4(xCoords) - PADDING_INCH)
        minY == max2(0, min4(yCoords) - PADDING_INCH)
        maxX == max4(xCoords) + PADDING_INCH
        maxY == max4(yCoords) + PADDING_INCH
    IN  [x |-> minX, y |-> minY, w |-> maxX - minX, h |-> maxY - minY]

\* a conversion that scales the position and forgets the size
toPointsPositionOnly(box, unit) ==
    IF unit = "inch"
    THEN [x |-> box.x * POINTS_PER_INCH, y |-> box.y * POINTS_PER_INCH,
          w |-> box.w, h |-> box.h]
    ELSE box

\* if (azurePage.unit === 'inch') { x *= 72; y *= 72; w *= 72; h *= 72; }
toPoints(box, unit) ==
    IF unit = "inch"
    THEN [x |-> box.x * POINTS_PER_INCH, y |-> box.y * POINTS_PER_INCH,
          w |-> box.w * POINTS_PER_INCH, h |-> box.h * POINTS_PER_INCH]
    ELSE box

\* the object pushed for one relevant word of one entity
redactionOf(entity, item, docPages) ==
    LET azurePage == docPages[item.pageIndex + 1]
        box == toPoints(paddedBox(item.word.polygon), azurePage.unit)
    IN  [pageIndex |-> item.pageIndex,
         x |-> box.x, y |-> box.y, width |-> box.w, height |-> box.h,
         text |-> entity.text, category |-> entity.category]

\* relevantWords.forEach(item => redactions.push(...)) for one entity
redactionsOfEntity(entity, words, docPages) ==
    LET relevant == relevantWords(entity, words)
    IN  [k \in DOMAIN relevant |-> redactionOf(entity, relevant[k], docPages)]

\* entities.forEach(...), from entity e on
RECURSIVE forEachEntity(_, _, _, _)
forEachEntity(ents, words, docPages, e) ==
    IF e > Len(ents) THEN <<>>
    ELSE redactionsOfEntity(ents[e], words, docPages)
         \o forEachEntity(ents, words, docPages, e + 1)

convertEntitiesToRedactionCoordinates(ents, docPages) ==
    forEachEntity(ents, allWords(docPages), docPages, 1)

-----------------------------------------------------------------------------
(* The mapping as a state machine: a document and an entity list are       *)
(* drawn, then mapped                                                      *)

\* polygons [x1, y1, x2, y2, x3, y3, x4, y4] in hundredths of a page unit:
\* the unit square at (1, 1), a word closer than the padding to the page
\* origin, and a tilted word
SquarePolygon == <<100, 100, 200, 100, 200, 200, 100, 200>>
OriginPolygon == <<1, 1, 50, 1, 50, 30, 1, 30>>
TiltedPolygon == <<120, 40, 220, 60, 215, 90, 115, 70>>
Polygons == {SquarePolygon, OriginPolygon, TiltedPolygon}

Units == {"pixel", "inch"}

DocIntelWord(polygon, offset, length) ==
    [content |-> textAt(offset, length), polygon |-> polygon,
     span |-> [offset |-> offset, length |-> length]]

MapSpans == {s \in (0..(MapTextLen - 1)) \X (1..MapTextLen) : s[1] + s[2] <= MapTextLen}

\* the spans of k words in reading order: ascending and disjoint
WordSpans(k) ==
    {ws \in [1..k -> MapSpans] :
        \A i \in 1..(k - 1) : ws[i][1] + ws[i][2] <= ws[i + 1][1]}

\* the words whose page is p, in reading order
wordsOfPage(words, pageOf, p) ==
    LET on == {i \in DOMAIN words : pageOf[i] = p}
    IN  IF on = {} THEN <<>> ELSE SubSeq(words, SetMin(on), SetMax(on))

\* the documents of n pages and k words: every page has a unit, every word
\* a polygon and a page, the pages follow the reading order, and no page is
\* blank unless the document has no word at all
Documents(n, k) ==
    {[p \in 1..n |->
         [unit |-> units[p],
          words |-> wordsOfPage([i \in 1..k |->
                                    DocIntelWord(polys[i], spans[i][1], spans[i][2])],
                                pageOf, p)]] :
        units \in [1..n -> Units],
        spans \in WordSpans(k),
        polys \in [1..k -> Polygons],
        pageOf \in {f \in [1..k -> 1..n] :
                       /\ \A i \in 1..(k - 1) : f[i] <= f[i + 1]
                       /\ \A p \in 1..n : (k = 0 /\ n = 1) \/ (\E i \in 1..k : f[i] = p)}}

\* the category the detectors give the text at an offset
categoryAt(offset) == IF offset = 0 THEN "Person" ELSE "Email"

MapEntitySet == {PIIEntity("azure", categoryAt(s[1]), s[1], s[2]) : s \in MapSpans}

\* the entity lists handed to the mapper: the filtered output of mergeEntities,
\* which is in ascending order of offset
MapEntityLists ==
    UNION {{es \in [1..m -> MapEntitySet] :
               \A i \in 1..(m - 1) : es[i].offset <= es[i + 1].offset} :
           m \in 0..MaxMapEntities}

\* the scenario of the specification: an entity at offset 10 of length 15 and
\* two words with the spans [10,14] and [15,25], both on page 0
ScenarioEntities == <<PIIEntity("azure", "Person", 10, 15)>>
ScenarioPages(unit) ==
    <<[unit |-> unit,
       words |-> <<DocIntelWord(SquarePolygon, 10, 5),
                   DocIntelWord(SquarePolygon, 15, 11)>>]>>

\* the documents of at most MaxPages pages and MaxWords words
MapDocuments == UNION {Documents(n, k) : n \in 1..MaxPages, k \in 0..MaxWords}

MergeIdle ==
    /\ azureEntities = <<>>
    /\ customEntities = <<>>
    /\ merged = <<>>
    /\ mergePc = "idle"

InitMap ==
    /\ \/ /\ entities \in MapEntityLists
          /\ pages \in MapDocuments
       \/ /\ entities = ScenarioEntities
          /\ pages \in {ScenarioPages(unit) : unit \in Units}
    /\ redactions = <<>>
    /\ mapPc = "input"
    /\ MergeIdle
    /\ SigIdle
    /\ FilterIdle
    /\ PIIIdle
    /\ OCRIdle
    /\ PostIdle
    /\ PatternIdle
    /\ PageIdle
    /\ LogIdle

Map ==
    /\ mapPc = "input"
    /\ redactions' = convertEntitiesToRedactionCoordinates(entities, pages)
    /\ mapPc' = "mapped"
    /\ UNCHANGED <<entities, pages>>
    /\ UNCHANGED mergeVars
    /\ UNCHANGED sigVars
    /\ UNCHANGED filterVars
    /\ UNCHANGED piiVars
    /\ UNCHANGED ocrVars
    /\ UNCHANGED postVars
    /\ UNCHANGED patternVars
    /\ UNCHANGED pageVars
    /\ UNCHANGED logVars

NextMap == Map

SpecMap == InitMap /\ [][NextMap]_vars

-----------------------------------------------------------------------------
(* Vocabulary of the mapping properties *)

Mapped == mapPc = "mapped"

\* the (entity, page, word) triples whose spans overlap, half-open test
MatchedPairs ==
    UNION {{<<e, p, i>> : i \in {w \in DOMAIN pages[p].words :
                LET span == pages[p].words[w].span
                IN  /\ span.offset < entities[e].offset + entities[e].length
                    /\ span.offset + span.length > entities[e].offset}} :
           e \in DOMAIN entities, p \in DOMAIN pages}

PolygonOf(t) == pages[t[2]].words[t[3]].polygon

\* the extent of a polygon: the least and the largest of its four x's and y's
MinX(polygon) == min4(<<polygon[1], polygon[3], polygon[5], polygon[7]>>)
MaxX(polygon) == max4(<<polygon[1], polygon[3], polygon[5], polygon[7]>>)
MinY(polygon) == min4(<<polygon[2], polygon[4], polygon[6], polygon[8]>>)
MaxY(polygon) == max4(<<polygon[2], polygon[4], polygon[6], polygon[8]>>)

\* output units per page unit: 72 points to the inch, pixels as they are
Scale(unit) == IF unit = "inch" THEN 72 ELSE 1

\* region r was made for the triple t
RegionFor(r, t) ==
    /\ r.pageIndex = t[2] - 1
    /\ r.text = entities[t[1]].text
    /\ r.category = entities[t[1]].category

\* every matched triple has a region that satisfies P, and every region is
\* the region of a matched triple and satisfies P with it
EveryRegion(P(_, _)) ==
    LET matched == MatchedPairs
    IN  /\ \A t \in matched :
              \E k \in DOMAIN redactions :
                  RegionFor(redactions[k], t) /\ P(redactions[k], t)
        /\ \A k \in DOMAIN redactions :
              \E t \in matched : RegionFor(redactions[k], t) /\ P(redactions[k], t)

Scenario == entities = ScenarioEntities /\ \E unit \in Units : pages = ScenarioPages(unit)

-----------------------------------------------------------------------------
(* C8: the mapper emits exactly one region per (entity, word) pair whose   *)
(* spans overlap, with the entity's text and category and the index of the *)
(* word's page; the scenario entity gives exactly 2 regions on page 0.     *)
C8_OneRegionPerMatchedWord ==
    Mapped =>
      /\ Len(redactions) = Cardinality(MatchedPairs)
      /\ EveryRegion(LAMBDA r, t : TRUE)
      /\ Scenario => /\ Len(redactions) = 2
                      /\ \A k \in DOMAIN redactions : redactions[k].pageIndex = 0

\* the scenario has been mapped
C8_Witness == Mapped /\ Scenario /\ Len(redactions) = 2

(* C9 as claimed: every region is the bounding box of its word with 0.02   *)
(* added on all four sides: left = min - 0.02, width = extent + 2 x 0.02.  *)
C9_PaddedOnAllSides ==
    Mapped =>
      EveryRegion(LAMBDA r, t :
          LET f == Scale(pages[t[2]].unit)
              polygon == PolygonOf(t)
          IN  /\ r.x = f * (MinX(polygon) - 2)
              /\ r.y = f * (MinY(polygon) - 2)
              /\ r.width = f * (MaxX(polygon) - MinX(polygon) + 4)
              /\ r.height = f * (MaxY(polygon) - MinY(polygon) + 4))

(* C9 as amended: the right and bottom edges are max + 0.02; the left and  *)
(* top edges are min - 0.02 where that is not negative and 0 otherwise, so *)
(* a word closer than 0.02 to the origin gets less than extent + 2 x 0.02. *)
C9_PaddedAndClamped ==
    Mapped =>
      EveryRegion(LAMBDA r, t :
          LET f == Scale(pages[t[2]].unit)
              polygon == PolygonOf(t)
          IN  /\ r.x >= 0 /\ r.y >= 0
              /\ MinX(polygon) >= 2 => r.x = f * (MinX(polygon) - 2)
              /\ MinX(polygon) < 2 => r.x = 0
              /\ MinY(polygon) >= 2 => r.y = f * (MinY(polygon) - 2)
              /\ MinY(polygon) < 2 => r.y = 0
              /\ r.x + r.width = f * (MaxX(polygon) + 2)
              /\ r.y + r.height = f * (MaxY(polygon) + 2))

\* a word closer than the padding to the origin has been mapped
C9_Witness ==
    /\ Mapped
    /\ \E t \in MatchedPairs :
          /\ MinX(PolygonOf(t)) < 2
          /\ \E k \in DOMAIN redactions :
                RegionFor(redactions[k], t) /\ redactions[k].x = 0

(* C10: x, y, width and height of the padded box are multiplied by 72 on   *)
(* inch pages and left as they are on pixel pages; the square word         *)
(* (1,1),(2,1),(2,2),(1,2) on an inch page gives x = y = 72 - 0.02 * 72    *)
(* and width = height = 72 + 2 * 0.02 * 72.                                *)
C10_InchToPoints ==
    Mapped =>
      /\ EveryRegion(LAMBDA r, t :
            LET box == paddedBox(PolygonOf(t))
            IN  IF pages[t[2]].unit = "inch"
                THEN /\ r.x = 72 * box.x /\ r.y = 72 * box.y
                     /\ r.width = 72 * box.w /\ r.height = 72 * box.h
                ELSE /\ r.x = box.x /\ r.y = box.y
                     /\ r.width = box.w /\ r.height = box.h)
      /\ \A p \in DOMAIN pages :
            (/\ pages[p].unit = "inch"
             /\ \A i \in DOMAIN pages[p].words : pages[p].words[i].polygon = SquarePolygon)
                => \A k \in DOMAIN redactions :
                       redactions[k].pageIndex = p - 1
                           => /\ redactions[k].x = 7056 /\ redactions[k].y = 7056
                              /\ redactions[k].width = 7488
                              /\ redactions[k].height = 7488

\* the square word has been mapped on an inch page, next to a word of a
\* pixel page
C10_Witness ==
    /\ Mapped
    /\ \E k \in DOMAIN redactions :
          /\ pages[redactions[k].pageIndex + 1].unit = "inch"
          /\ redactions[k].x = 7056 /\ redactions[k].width = 7488
    /\ \E k \in DOMAIN redactions : pages[redactions[k].pageIndex + 1].unit = "pixel"

-----------------------------------------------------------------------------
(* Strings.  A string is the sequence of its characters, each character a  *)
(* one-character string; offsets are 0-based as in JavaScript and indexes  *)
(* of the sequence 1-based.                                                *)

UpperCaseLetters == <<"A", "B", "C", "D", "E", "F", "G", "H", "I", "J", "K", "L", "M", "N", "O", "P", "Q", "R", "S", "T", "U", "V", "W", "X", "Y", "Z", "Ä", "Ö", "Ü">>
LowerCaseLetters == <<"a", "b", "c", "d", "e", "f", "g", "h", "i", "j", "k", "l", "m", "n", "o", "p", "q", "r", "s", "t", "u", "v", "w", "x", "y", "z", "ä", "ö", "ü">>

Digits == {"0", "1", "2", "3", "4", "5", "6", "7", "8", "9"}

\* the space characters of \s that the texts of the model contain
Whitespace == {" ", "\n", "\r", "\t"}

\* String.prototype.toLowerCase, character by character
toLowerCaseMap == [c \in {UpperCaseLetters[i] : i \in DOMAIN UpperCaseLetters} |->
                     LowerCaseLetters[CHOOSE i \in DOMAIN UpperCaseLetters : UpperCaseLetters[i] = c]]

toLowerCaseChar(c) == IF c \in DOMAIN toLowerCaseMap THEN toLowerCaseMap[c] ELSE c

toLowerCase(s) == [i \in 1..Len(s) |-> toLowerCaseChar(s[i])]

\* String.prototype.substring(start, end): both ends are clamped to
\* 0..length and swapped when start > end
clamp(n, len) == IF n < 0 THEN 0 ELSE IF n > len THEN len ELSE n

substring(s, start, end) ==
    LET a == clamp(start, Len(s))
        b == clamp(end, Len(s))
    IN  IF a <= b THEN SubSeq(s, a + 1, b) ELSE SubSeq(s, b + 1, a)

\* String.prototype.trim
trim(s) ==
    LET kept == {i \in 1..Len(s) : s[i] \notin Whitespace}
    IN  IF kept = {} THEN <<>>
        ELSE SubSeq(s, CHOOSE i \in kept : \A j \in kept : i <= j,
                       CHOOSE i \in kept : \A j \in kept : i >= j)

\* sub occurs in s at index i
occursAt(s, i, sub) ==
    /\ i + Len(sub) - 1 <= Len(s)
    /\ \A k \in 1..Len(sub) : s[i + k - 1] = sub[k]

\* String.prototype.includes
includes(s, sub) == \E i \in 1..(Len(s) - Len(sub) + 1) : occursAt(s, i, sub)

AllIn(s, chars) == \A i \in 1..Len(s) : s[i] \in chars

-----------------------------------------------------------------------------
(* detectSignaturesFromStyles: the label keywords and the form-field patterns *)

signatureLabels ==
    <<<<"u", "n", "t", "e", "r", "s", "c", "h", "r", "i", "f", "t">>,
      <<"u", "n", "t", "e", "r", "s", "c", "h", "r", "i", "f", "t", "e", "n">>,
      <<"s", "i", "g", "n", "a", "t", "u", "r", "e">>,
      <<"s", "i", "g", "n", "a", "t", "u", "r", "e", "s">>,
      <<"s", "i", "g", "n", "e", "d">>,
      <<"d", "a", "t", "u", "m", "/", "u", "n", "t", "e", "r", "s", "c", "h", "r", "i", "f", "t">>,
      <<"u", "n", "t", "e", "r", "z", "e", "i", "c", "h", "n", "e", "r">>,
      <<"u", "n", "t", "e", "r", "z", "e", "i", "c", "h", "n", "e", "t">>,
      <<"g", "e", "z", "e", "i", "c", "h", "n", "e", "t">>,
      <<"g", "e", "z", ".">>,
      <<"i", ".", "a", ".">>,
      <<"p", "p", "a", ".">>,
      <<"p", "r", "o", "t", "o", "k", "o", "l", "l", "f", "ü", "h", "r", "e", "r">>,
      <<"z", "e", "u", "g", "e">>>>

\* the ends j of the prefixes t[1..j] that match \d+[.,]?\d*\s* , the common
\* head of the kWh, area and percent patterns
numberPrefixEnds(t) ==
    {j \in 1..Len(t) :
        \E a \in 1..j :
            /\ \A i \in 1..a : t[i] \in Digits
            /\ \E b \in a..j : \E c \in b..j :
                  /\ b = a \/ (b = a + 1 /\ t[b] \in {".", ","})
                  /\ \A i \in (b + 1)..c : t[i] \in Digits
                  /\ \A i \in (c + 1)..j : t[i] \in Whitespace}

\* /^[\d\s.,€$%]+$/
isNumbersOnly(t) == Len(t) >= 1 /\ AllIn(t, Digits \cup Whitespace \cup {".", ",", "€", "$", "%"})

\* /^\d{1,2}[.,]\d{2}[.,]\d{4}$/
isDate(t) ==
    \E d \in 1..2 :
        /\ Len(t) = d + 8
        /\ \A i \in 1..d : t[i] \in Digits
        /\ t[d + 1] \in {".", ","}
        /\ \A i \in (d + 2)..(d + 3) : t[i] \in Digits
        /\ t[d + 4] \in {".", ","}
        /\ \A i \in (d + 5)..(d + 8) : t[i] \in Digits

\* /^[xX\u2713\u2717]$/ : x, X, check mark, ballot x (the two marks are written
\* by their code points)
isCheckMark(t) == Len(t) = 1 /\ t[1] \in {"x", "X", "U+2713", "U+2717"}

\* /^ja$/i and /^nein$/i
isYesNo(t) == toLowerCase(t) \in {<<"j", "a">>, <<"n", "e", "i", "n">>}

\* /^EUR?$/i
isCurrency(t) == toLowerCase(t) \in {<<"e", "u">>, <<"e", "u", "r">>}

\* /^\d{5}$/
isPostalCode(t) == Len(t) = 5 /\ AllIn(t, Digits)

\* /^\d+[.,]?\d*\s*kWh/i
isEnergyValue(t) ==
    \E j \in numberPrefixEnds(t) : occursAt(toLowerCase(t), j + 1, <<"k", "w", "h">>)

\* /^\d+[.,]?\d*\s*m[²2³3]/i
isAreaValue(t) ==
    \E j \in numberPrefixEnds(t) :
        /\ j + 2 <= Len(t)
        /\ toLowerCaseChar(t[j + 1]) = "m"
        /\ t[j + 2] \in {"²", "2", "³", "3"}

\* /^\d+[.,]?\d*\s*%$/
isPercentage(t) == \E j \in numberPrefixEnds(t) : j + 1 = Len(t) /\ t[j + 1] = "%"

\* /^[A-H]\+?$/i
isEnergyRating(t) ==
    /\ Len(t) \in 1..2
    /\ toLowerCaseChar(t[1]) \in {"a", "b", "c", "d", "e", "f", "g", "h"}
    /\ Len(t) = 2 => t[2] = "+"

\* /^>?\d+$/
isScaleNumber(t) ==
    \/ Len(t) >= 1 /\ AllIn(t, Digits)
    \/ Len(t) >= 2 /\ t[1] = ">" /\ AllIn(Tail(t), Digits)

\* /^\d{1,3}$/
isShortNumber(t) == Len(t) \in 1..3 /\ AllIn(t, Digits)

\* /^[A-Z]{1,5}$/
isAbbreviation(t) ==
    Len(t) \in 1..5 /\ AllIn(t, {UpperCaseLetters[i] : i \in 1..26})

\* t matches one of the formFieldPatterns
matchesFormFieldPattern(t) ==
    \/ isNumbersOnly(t)
    \/ isDate(t)
    \/ isCheckMark(t)
    \/ isYesNo(t)
    \/ isCurrency(t)
    \/ isPostalCode(t)
    \/ isEnergyValue(t)
    \/ isAreaValue(t)
    \/ isPercentage(t)
    \/ isEnergyRating(t)
    \/ isScaleNumber(t)
    \/ isShortNumber(t)
    \/ isAbbreviation(t)

isFormFieldNever(t) == FALSE

\* const isFormField = formFieldPatterns.some(pattern => pattern.test(handwrittenText))
isFormField(t) == matchesFormFieldPattern(t)

-----------------------------------------------------------------------------
(* detectSignaturesFromStyles: the primary pass over the handwritten styles. *)
(* Distances are in hundredths of a page unit; a centre (a + b) / 2 is kept  *)
(* doubled, as a + b, and compared with the doubled threshold.               *)

\* const contextRadius = 150 (characters)
contextRadius == 150
\* yDistance < 2.0 && xDistance < 4.0
LABEL_Y_DISTANCE == 200
LABEL_X_DISTANCE == 400
\* avgWordY > pageHeight * 0.75, the factor in percent
BOTTOM_PORTION == 75
\* const padding = 0.05
SIGNATURE_PADDING == 5

abs(n) == IF n < 0 THEN 0 - n ELSE n

\* the first characters of the label keywords
labelInitials == {signatureLabels[l][1] : l \in DOMAIN signatureLabels}

\* signatureLabels.some(label => text.includes(label)): some label keyword
\* occurs at some index of the text
includesSomeLabel(text) ==
    \E i \in 1..Len(text) :
        /\ text[i] \in labelInitials
        /\ \E l \in DOMAIN signatureLabels : occursAt(text, i, signatureLabels[l])

\* the words of one page whose span overlaps the handwritten span, each with
\* its page's index, height and unit
matchingWordsOnPage(page, pageIdx, span) ==
    LET overlaps(word) ==
            /\ word.span.offset < span.offset + span.length
            /\ word.span.offset + word.span.length > span.offset
        hits == SelectSeq(page.words, overlaps)
    IN  [i \in 1..Len(hits) |->
            [word |-> hits[i], pageIndex |-> pageIdx,
             pageHeight |-> page.height, pageUnit |-> page.unit]]

RECURSIVE matchingWordsFrom(_, _, _)
matchingWordsFrom(pgs, span, p) ==
    IF p > Len(pgs) THEN <<>>
    ELSE matchingWordsOnPage(pgs[p], p - 1, span) \o matchingWordsFrom(pgs, span, p + 1)

matchingWordsOf(pgs, span) == matchingWordsFrom(pgs, span, 1)

\* the label keyword test on the text around the span
isNearSignatureLabel(cont, span) ==
    LET contextStart == max2(0, span.offset - contextRadius)
        contextEnd == min2(Len(cont), span.offset + span.length + contextRadius)
        context == toLowerCase(substring(cont, contextStart, contextEnd))
    IN  includesSomeLabel(context)

\* doubled centre of a word: polygon[1] + polygon[5] and polygon[0] + polygon[2]
centreY2(word) == word.polygon[2] + word.polygon[6]
centreX2(word) == word.polygon[1] + word.polygon[3]

\* the label word test on the page of the first matching word
isNearLabelSpatially(pgs, matchingWords) ==
    LET first == matchingWords[1]
        samePage == pgs[first.pageIndex + 1]
    IN  \E k \in DOMAIN samePage.words :
            LET pageWord == samePage.words[k]
            IN  /\ includesSomeLabel(toLowerCase(pageWord.content))
                /\ abs(centreY2(first.word) - centreY2(pageWord)) < 2 * LABEL_Y_DISTANCE
                /\ abs(centreX2(first.word) - centreX2(pageWord)) < 2 * LABEL_X_DISTANCE

\* const minLength = isNearSignatureLabel ? 2 : 3
minLength(nearSignatureLabel) == IF nearSignatureLabel THEN 2 ELSE 3

\* the re-check after the spatial test: TRUE when the span is skipped
skippedAfterSpatialCheck(text, nearSignatureLabel, nearLabelSpatially) ==
    IF ~nearSignatureLabel /\ nearLabelSpatially /\ Len(text) >= 2
    THEN FALSE
    ELSE Len(text) < (IF nearSignatureLabel \/ nearLabelSpatially THEN 2 ELSE 3)

RECURSIVE sumCentreY2(_, _)
sumCentreY2(matchingWords, i) ==
    IF i > Len(matchingWords) THEN 0
    ELSE centreY2(matchingWords[i].word) + sumCentreY2(matchingWords, i + 1)

\* avgWordY > pageHeight * 0.75, with avgWordY = sum of the centres / count
isInBottomPortion(matchingWords) ==
    100 * sumCentreY2(matchingWords, 1) >
        2 * Len(matchingWords) * BOTTOM_PORTION * matchingWords[1].pageHeight

isLikelySignatureAnyLength(nearLabel, inBottomPortion, text) ==
    nearLabel \/ inBottomPortion

\* const isLikelySignature = isNearLabel || (isInBottomPortion && handwrittenText.length >= 5)
isLikelySignature(nearLabel, inBottomPortion, text) ==
    nearLabel \/ (inBottomPortion /\ Len(text) >= 5)

primaryPrefix == <<"[", "S", "i", "g", "n", "a", "t", "u", "r", "e", ":", " ">>
fallbackPrefix == <<"[", "S", "i", "g", "n", "a", "t", "u", "r", "e", " ", "(", "f", "a", "l", "l", "b", "a", "c", "k", ")", ":", " ">>

\* the region pushed for an accepted span: the box around all matching words,
\* padded, clamped at 0 on the low side, in points when the unit is inch
signatureRegion(matchingWords, text) ==
    LET xs == {matchingWords[i].word.polygon[k] : i \in DOMAIN matchingWords, k \in {1, 3, 5, 7}}
        ys == {matchingWords[i].word.polygon[k] : i \in DOMAIN matchingWords, k \in {2, 4, 6, 8}}
        scale == IF matchingWords[1].pageUnit = "inch" THEN POINTS_PER_INCH ELSE 1
        minX == max2(0, SetMin(xs) - SIGNATURE_PADDING) * scale
        minY == max2(0, SetMin(ys) - SIGNATURE_PADDING) * scale
        maxX == (SetMax(xs) + SIGNATURE_PADDING) * scale
        maxY == (SetMax(ys) + SIGNATURE_PADDING) * scale
    IN  [pageIndex |-> matchingWords[1].pageIndex,
         x |-> minX, y |-> minY, width |-> maxX - minX, height |-> maxY - minY,
         text |-> primaryPrefix \o substring(text, 0, 30) \o <<".", ".", ".", "]">>,
         category |-> "Signature"]

\* one iteration of the loop over the spans of a handwritten style: the
\* regions it pushes (none or one)
primarySpan(cont, pgs, span) ==
    LET handwrittenText == trim(substring(cont, span.offset, span.offset + span.length))
        nearSignatureLabel == isNearSignatureLabel(cont, span)
        matchingWords == matchingWordsOf(pgs, span)
    IN  IF Len(handwrittenText) < minLength(nearSignatureLabel) THEN <<>>
        ELSE IF isFormField(handwrittenText) THEN <<>>
        ELSE IF Len(matchingWords) = 0 THEN <<>>
        ELSE LET nearLabelSpatially == isNearLabelSpatially(pgs, matchingWords)
                 nearLabel == nearSignatureLabel \/ nearLabelSpatially
             IN  IF skippedAfterSpatialCheck(handwrittenText, nearSignatureLabel, nearLabelSpatially)
                 THEN <<>>
                 ELSE IF isLikelySignature(nearLabel, isInBottomPortion(matchingWords), handwrittenText)
                 THEN <<signatureRegion(matchingWords, handwrittenText)>>
                 ELSE <<>>

RECURSIVE primarySpans(_, _, _, _)
primarySpans(cont, pgs, spans, i) ==
    IF i > Len(spans) THEN <<>>
    ELSE primarySpan(cont, pgs, spans[i]) \o primarySpans(cont, pgs, spans, i + 1)

\* for (const style of handwrittenStyles) for (const span of style.spans)
RECURSIVE primaryPass(_, _, _, _)
primaryPass(cont, sts, pgs, s) ==
    IF s > Len(sts) THEN <<>>
    ELSE (IF sts[s].isHandwritten THEN primarySpans(cont, pgs, sts[s].spans, 1) ELSE <<>>)
         \o primaryPass(cont, sts, pgs, s + 1)

-----------------------------------------------------------------------------
(* detectSignaturesFromStyles: the fallback pass over the label words *)

\* nearbyY - labelY < 1.0 and |nearbyX - labelX| < 3.0
FALLBACK_BELOW == 100
FALLBACK_BESIDE == 300
\* the 0.1 subtracted from x and y and the 0.2 added to w and h
FALLBACK_MARGIN == 10
\* w > 20 && h > 10
FALLBACK_MIN_WIDTH == 2000
FALLBACK_MIN_HEIGHT == 1000
\* |sig.x - polygon[0] * 72| < 50
ALREADY_DETECTED_DISTANCE == 5000

isSignatureLabelByWholeKeyword(wordText) ==
    \E l \in DOMAIN signatureLabels : includes(wordText, signatureLabels[l])

\* wordText.includes(label) || (label.length > 4 && wordText.includes(label.substring(0, 5)))
\* for some label: the keyword or its first five characters occur at some
\* index of the word
isSignatureLabel(wordText) ==
    \E i \in 1..Len(wordText) :
        /\ wordText[i] \in labelInitials
        /\ \E l \in DOMAIN signatureLabels :
              LET label == signatureLabels[l]
              IN  \/ occursAt(wordText, i, label)
                  \/ Len(label) > 4 /\ occursAt(wordText, i, substring(label, 0, 5))

\* /^(ja|nein|oder|und|der|die|das|nicht|bitte|von|zu)$/i
isCommonWord(text) ==
    toLowerCase(text) \in
        {<<"j", "a">>,
         <<"n", "e", "i", "n">>,
         <<"o", "d", "e", "r">>,
         <<"u", "n", "d">>,
         <<"d", "e", "r">>,
         <<"d", "i", "e">>,
         <<"d", "a", "s">>,
         <<"n", "i", "c", "h", "t">>,
         <<"b", "i", "t", "t", "e">>,
         <<"v", "o", "n">>,
         <<"z", "u">>}

Letters ==
    {UpperCaseLetters[i] : i \in DOMAIN UpperCaseLetters}
        \cup {LowerCaseLetters[i] : i \in DOMAIN LowerCaseLetters} \cup {"ß"}

\* /[a-zA-ZäöüÄÖÜß]{3,}/
hasLetters(text) ==
    \E i \in 1..(Len(text) - 2) : \A k \in i..(i + 2) : text[k] \in Letters

\* signatures.some(sig => ...) on the regions pushed so far
alreadyDetected(sigs, pageIdx, nearbyWord) ==
    \E k \in DOMAIN sigs :
        /\ sigs[k].pageIndex = pageIdx
        /\ abs(sigs[k].x - nearbyWord.polygon[1] * POINTS_PER_INCH) < ALREADY_DETECTED_DISTANCE
        /\ abs(sigs[k].y - nearbyWord.polygon[2] * POINTS_PER_INCH) < ALREADY_DETECTED_DISTANCE

fallbackRegion(page, pageIdx, nearbyWord) ==
    LET polygon == nearbyWord.polygon
        scale == IF page.unit = "inch" THEN POINTS_PER_INCH ELSE 1
        x == min2(polygon[1], polygon[7]) - FALLBACK_MARGIN
        y == min2(polygon[2], polygon[4]) - FALLBACK_MARGIN
        w == max2(polygon[3], polygon[5]) - x + 2 * FALLBACK_MARGIN
        h == max2(polygon[6], polygon[8]) - y + 2 * FALLBACK_MARGIN
    IN  [pageIndex |-> pageIdx,
         x |-> x * scale, y |-> y * scale, width |-> w * scale, height |-> h * scale,
         text |-> fallbackPrefix \o nearbyWord.content \o <<"]">>,
         category |-> "Signature"]

\* the inner loop: the words near the label word at index w, from index n on
RECURSIVE fallbackNearby(_, _, _, _, _)
fallbackNearby(sigs, page, pageIdx, w, n) ==
    IF n > Len(page.words) THEN sigs
    ELSE LET word == page.words[w]
             nearbyWord == page.words[n]
             isBelow == /\ centreY2(nearbyWord) > centreY2(word)
                        /\ centreY2(nearbyWord) - centreY2(word) < 2 * FALLBACK_BELOW
             isBeside == abs(centreX2(nearbyWord) - centreX2(word)) < 2 * FALLBACK_BESIDE
             region == fallbackRegion(page, pageIdx, nearbyWord)
             pushed == /\ n # w
                       /\ isBelow /\ isBeside
                       /\ ~isCommonWord(nearbyWord.content)
                       /\ hasLetters(nearbyWord.content)
                       /\ ~alreadyDetected(sigs, pageIdx, nearbyWord)
                       /\ Len(nearbyWord.content) >= 3
                       /\ region.width > FALLBACK_MIN_WIDTH
                       /\ region.height > FALLBACK_MIN_HEIGHT
         IN  fallbackNearby(IF pushed THEN Append(sigs, region) ELSE sigs,
                            page, pageIdx, w, n + 1)

\* the loop over the words of one page, from index w on
RECURSIVE fallbackWords(_, _, _, _)
fallbackWords(sigs, page, pageIdx, w) ==
    IF w > Len(page.words) THEN sigs
    ELSE LET wordText == toLowerCase(page.words[w].content)
             processed == /\ isSignatureLabel(wordText)
                          /\ Len(wordText) > 3
                          \* if (labelY < pageHeight * 0.5) continue, doubled
                          /\ ~(centreY2(page.words[w]) < page.height)
         IN  fallbackWords(IF processed THEN fallbackNearby(sigs, page, pageIdx, w, 1) ELSE sigs,
                           page, pageIdx, w + 1)

RECURSIVE fallbackPages(_, _, _)
fallbackPages(sigs, pgs, p) ==
    IF p > Len(pgs) THEN sigs
    ELSE fallbackPages(fallbackWords(sigs, pgs[p], p - 1, 1), pgs, p + 1)

fallbackPassAlways(sigs, pgs) == fallbackPages(sigs, pgs, 1)

\* if (signatures.length === 0) { ... }
fallbackPass(sigs, pgs) == IF Len(sigs) = 0 THEN fallbackPages(sigs, pgs, 1) ELSE sigs

detectSignaturesFromStyles(cont, sts, pgs) == fallbackPass(primaryPass(cont, sts, pgs, 1), pgs)

-----------------------------------------------------------------------------
(* The documents detectSignaturesFromStyles is called with *)

\* largest number of handwriting words of a document
MaxSigWords == 2

\* page.height of a letter-size page, in hundredths of a page unit
PageHeight == 1100
\* horizontal step between two neighbouring handwriting words
WordStep == 200

labelText == <<"U", "n", "t", "e", "r", "s", "c", "h", "r", "i", "f", "t">>
\* a ruled line of 160 characters, longer than the context radius
lineText == [i \in 1..(contextRadius + 10) |-> "_"]

HandTexts ==
    {<<"M", "m">>,
     <<"M", "a", "x">>,
     <<"M", "a", "x", "i", "m">>,
     <<"1", "2", "3">>}

\* the label word at the top of the page and at its bottom, the ruled line
\* right of it, and the handwriting next to the one and to the other
TopLabelPolygon == <<100, 100, 250, 100, 250, 120, 100, 120>>
BottomLabelPolygon == <<100, 900, 250, 900, 250, 920, 100, 920>>
TopLinePolygon == <<260, 100, 800, 100, 800, 120, 260, 120>>
TopHandPolygon == <<120, 140, 300, 140, 300, 190, 120, 190>>
BottomHandPolygon == <<120, 940, 300, 940, 300, 990, 120, 990>>

\* a polygon moved right by dx
shifted(polygon, dx) == [k \in 1..8 |-> IF k % 2 = 1 THEN polygon[k] + dx ELSE polygon[k]]

\* a word of DocIntelPage.words with its text
SigWord(text, polygon, offset) ==
    [content |-> text, polygon |-> polygon, span |-> [offset |-> offset, length |-> Len(text)]]

\* the words before the handwriting: none, or the label at the top followed
\* by the ruled line ("far": more than contextRadius characters lie between
\* label and handwriting), or the label at the bottom ("near")
LabelOptions == {"none", "far", "near"}

\* words at the label's place that hold no keyword: "Unter" and "Datum" are
\* the first five characters of keywords, "Name:" is neither
OtherLabels ==
    [prefix |-> <<"U", "n", "t", "e", "r">>,
     date |-> <<"D", "a", "t", "u", "m">>,
     plain |-> <<"N", "a", "m", "e", ":">>]

headWords(label) ==
    IF label = "far"
    THEN <<SigWord(labelText, TopLabelPolygon, 0),
           SigWord(lineText, TopLinePolygon, Len(labelText) + 1)>>
    ELSE IF label = "near" THEN <<SigWord(labelText, BottomLabelPolygon, 0)>>
    ELSE IF label \in DOMAIN OtherLabels
         THEN <<SigWord(OtherLabels[label], BottomLabelPolygon, 0)>>
    ELSE <<>>

\* words joined by single spaces, as the OCR content joins them
RECURSIVE joined(_, _)
joined(words, i) ==
    IF i > Len(words) THEN <<>>
    ELSE (IF i = 1 THEN <<>> ELSE <<" ">>) \o words[i].content \o joined(words, i + 1)

\* the handwriting words hand[1..k] = [text, place], laid out from offset on
RECURSIVE handWords(_, _, _)
handWords(hand, k, offset) ==
    IF k > Len(hand) THEN <<>>
    ELSE <<SigWord(hand[k].text,
                   shifted(IF hand[k].place = "top" THEN TopHandPolygon ELSE BottomHandPolygon,
                           (k - 1) * WordStep),
                   offset)>>
         \o handWords(hand, k + 1, offset + Len(hand[k].text) + 1)

wordsOfDocument(label, hand) ==
    LET head == headWords(label)
        start == IF head = <<>> THEN 0
                 ELSE head[Len(head)].span.offset + head[Len(head)].span.length + 1
    IN  head \o handWords(hand, 1, start)

\* the spans of a style: ascending ranges first..last of handwriting words,
\* no two sharing a word
Ranges(n) == {r \in (1..n) \X (1..n) : r[1] <= r[2]}

RangeLists(n) ==
    UNION {{rs \in [1..m -> Ranges(n)] : \A i \in 1..(m - 1) : rs[i][2] < rs[i + 1][1]} : m \in 1..n}

spanOfRange(words, headLen, r) ==
    LET first == words[headLen + r[1]]
        last == words[headLen + r[2]]
    IN  [offset |-> first.span.offset,
         length |-> last.span.offset + last.span.length - first.span.offset]

\* the handwriting: texts and places, the places ascending down the page
Places == {"top", "bottom"}

Hands(n) ==
    {h \in [1..n -> [text : HandTexts, place : Places]] :
        \A i \in 1..(n - 1) : h[i].place = "bottom" => h[i + 1].place = "bottom"}

\* the styles: none, one handwritten style over any ranges, or one style that
\* is not handwritten over the whole handwriting
StyleChoices(n) ==
    {<<>>} \cup {<<[isHandwritten |-> TRUE, ranges |-> rs]>> : rs \in RangeLists(n)}
           \cup {<<[isHandwritten |-> FALSE, ranges |-> <<<<1, n>>>>]>>}

SigDocument(label, hand, choice, unit) ==
    LET words == wordsOfDocument(label, hand)
        headLen == Len(headWords(label))
    IN  [content |-> joined(words, 1),
         styles |-> [s \in DOMAIN choice |->
                        [isHandwritten |-> choice[s].isHandwritten,
                         spans |-> [i \in DOMAIN choice[s].ranges |->
                                       spanOfRange(words, headLen, choice[s].ranges[i])]]],
         pages |-> <<[unit |-> unit, height |-> PageHeight, words |-> words]>>]

\* "Max M." written next to the label "Unterschrift"
ScenarioHand ==
    <<[text |-> <<"M", "a", "x">>, place |-> "bottom"], [text |-> <<"M", ".">>, place |-> "bottom"]>>

\* the choices a document is built from: label, handwriting, styles, unit
SigInputs ==
    UNION {LabelOptions \X Hands(n) \X StyleChoices(n) \X Units : n \in 1..MaxSigWords}
    \cup ({"near"} \X {ScenarioHand} \X {<<[isHandwritten |-> TRUE, ranges |-> <<<<1, 2>>>>]>>} \X Units)
    \cup ((DOMAIN OtherLabels) \X Hands(1) \X {<<>>} \X Units)

-----------------------------------------------------------------------------
(* Signature detection as a state machine: a document is drawn, then scanned *)

\* a signature written across a page break: the label and "Max" at the
\* bottom of page 0, "Mustermann" at the top of page 1, and one handwritten
\* span over both words
TwoPageDocument(unit) ==
    LET label == SigWord(labelText, BottomLabelPolygon, 0)
        first == SigWord(<<"M", "a", "x">>, BottomHandPolygon, Len(labelText) + 1)
        second == SigWord(<<"M", "u", "s", "t", "e", "r", "m", "a", "n", "n">>,
                          shifted(TopHandPolygon, WordStep),
                          first.span.offset + first.span.length + 1)
    IN  [content |-> joined(<<label, first, second>>, 1),
         styles |-> <<[isHandwritten |-> TRUE,
                       spans |-> <<[offset |-> first.span.offset,
                                    length |-> second.span.offset + second.span.length
                                                  - first.span.offset]>>]>>,
         pages |-> <<[unit |-> unit, height |-> PageHeight, words |-> <<label, first>>],
                     [unit |-> unit, height |-> PageHeight, words |-> <<second>>]>>]

InitSig ==
    /\ \/ \E in \in SigInputs :
            LET doc == SigDocument(in[1], in[2], in[3], in[4])
            IN  /\ content = doc.content
                /\ styles = doc.styles
                /\ sigPages = doc.pages
       \/ \E unit \in Units :
            LET doc == TwoPageDocument(unit)
            IN  /\ content = doc.content
                /\ styles = doc.styles
                /\ sigPages = doc.pages
    /\ signatures = <<>>
    /\ sigPc = "input"
    /\ MergeIdle
    /\ MapIdle
    /\ FilterIdle
    /\ PIIIdle
    /\ OCRIdle
    /\ PostIdle
    /\ PatternIdle
    /\ PageIdle
    /\ LogIdle

DetectSignatures ==
    /\ sigPc = "input"
    /\ signatures' = detectSignaturesFromStyles(content, styles, sigPages)
    /\ sigPc' = "detected"
    /\ UNCHANGED <<content, styles, sigPages>>
    /\ UNCHANGED mergeVars
    /\ UNCHANGED mapVars
    /\ UNCHANGED filterVars
    /\ UNCHANGED piiVars
    /\ UNCHANGED ocrVars
    /\ UNCHANGED postVars
    /\ UNCHANGED patternVars
    /\ UNCHANGED pageVars
    /\ UNCHANGED logVars

NextSig == DetectSignatures

SpecSig == InitSig /\ [][NextSig]_vars

-----------------------------------------------------------------------------
(* Vocabulary of the signature claims *)

Detected == sigPc = "detected"

\* the spans of the handwritten styles, by style index and span index
HandwrittenSpans ==
    {si \in UNION {{<<s, i>> : i \in DOMAIN styles[s].spans} : s \in DOMAIN styles} :
        styles[si[1]].isHandwritten}

SpanOf(si) == styles[si[1]].spans[si[2]]

\* the trimmed text the span covers
SpanText(si) == trim(SubSeq(content, SpanOf(si).offset + 1, SpanOf(si).offset + SpanOf(si).length))

\* the OCR words under the span, in page and reading order
SpanWords(si) == matchingWordsOf(sigPages, SpanOf(si))

\* textual signal: a label keyword lies wholly within 150 characters before
\* the span's start and 150 characters after its end
TextuallyNear(si) ==
    LET lower == toLowerCase(content)
        from == SpanOf(si).offset - 150
        to == SpanOf(si).offset + SpanOf(si).length + 150
    IN  \E i \in 1..Len(lower) :
            /\ lower[i] \in labelInitials
            /\ \E l \in DOMAIN signatureLabels :
                  /\ occursAt(lower, i, signatureLabels[l])
                  /\ i - 1 >= from
                  /\ i - 1 + Len(signatureLabels[l]) <= to

\* spatial signal: a word containing a label keyword lies on the page of the
\* span's first word, its centre less than 2.0 units away vertically and
\* less than 4.0 units horizontally (centres doubled: 400 and 800 hundredths)
SpatiallyNear(si) ==
    /\ SpanWords(si) # <<>>
    /\ LET first == SpanWords(si)[1]
       IN  \E k \in DOMAIN sigPages[first.pageIndex + 1].words :
              LET w == sigPages[first.pageIndex + 1].words[k]
              IN  /\ \E l \in DOMAIN signatureLabels :
                        includes(toLowerCase(w.content), signatureLabels[l])
                  /\ abs((first.word.polygon[2] + first.word.polygon[6])
                           - (w.polygon[2] + w.polygon[6])) < 400
                  /\ abs((first.word.polygon[1] + first.word.polygon[3])
                           - (w.polygon[1] + w.polygon[3])) < 800

NearLabel(si) == TextuallyNear(si) \/ SpatiallyNear(si)

\* the average centre y of the span's words lies below 75% of the height of
\* the first word's page
InBottomQuarter(si) ==
    /\ SpanWords(si) # <<>>
    /\ 2 * sumCentreY2(SpanWords(si), 1) > 3 * Len(SpanWords(si)) * SpanWords(si)[1].pageHeight

IsPrimaryRegion(r) == occursAt(r.text, 1, primaryPrefix)
IsFallbackRegion(r) == occursAt(r.text, 1, fallbackPrefix)

\* the least x and the least y of the corners of the span's words
SpanLeft(si) == SetMin({SpanWords(si)[i].word.polygon[k] : i \in DOMAIN SpanWords(si), k \in {1, 3, 5, 7}})
SpanTop(si) == SetMin({SpanWords(si)[i].word.polygon[k] : i \in DOMAIN SpanWords(si), k \in {2, 4, 6, 8}})

\* r is the region the primary pass pushes for the span: it carries the
\* span's text, lies on the page of the span's first word and starts 0.05
\* units left of and above the span's words (at 0 at the least), in points
\* on a page measured in inches
RegionOfSpan(si, r) ==
    /\ r.category = "Signature"
    /\ r.text = primaryPrefix \o SubSeq(SpanText(si), 1, min2(30, Len(SpanText(si))))
                   \o <<".", ".", ".", "]">>
    /\ SpanWords(si) # <<>>
    /\ r.pageIndex = SpanWords(si)[1].pageIndex
    /\ LET scale == IF SpanWords(si)[1].pageUnit = "inch" THEN 72 ELSE 1
       IN  /\ r.x = scale * max2(0, SpanLeft(si) - 5)
           /\ r.y = scale * max2(0, SpanTop(si) - 5)

Emitted(si) == \E k \in DOMAIN signatures : RegionOfSpan(si, signatures[k])

-----------------------------------------------------------------------------
(* Claims about detectSignaturesFromStyles *)

\* C11: in the primary pass the minimum text length of a handwritten span is
\* 2 characters whenever the span is near a signature label by either signal
\* (textual or spatial) and 3 otherwise: a span of at least 2 characters that
\* is near a label, is no form field and has an OCR word under it is not
\* rejected for its length, so it is emitted (near a label it is accepted);
\* in particular when it is near a label only spatially.
C11_MinLengthTwoNearLabel ==
    Detected =>
        \A si \in HandwrittenSpans :
            (/\ NearLabel(si)
             /\ Len(SpanText(si)) >= 2
             /\ ~matchesFormFieldPattern(SpanText(si))
             /\ SpanWords(si) # <<>>)
            => Emitted(si)

\* the length filter and the form-field filter let the span through
PassedFilters(si) ==
    /\ Len(SpanText(si)) >= (IF TextuallyNear(si) THEN 2 ELSE 3)
    /\ ~matchesFormFieldPattern(SpanText(si))

\* the acceptance rule: near a label, or in the bottom quarter with a text
\* of at least 5 characters
Accepted(si) == NearLabel(si) \/ (InBottomQuarter(si) /\ Len(SpanText(si)) >= 5)

PrimaryRegions == SelectSeq(signatures, IsPrimaryRegion)

\* C12: a handwritten span that passed the length and form-field filters and
\* has at least one OCR word under it is emitted by the primary pass as
\* exactly one region of category Signature if and only if it is near a
\* signature label (textual or spatial) or its words lie on average in the
\* bottom 25% of the page and its text has at least 5 characters: every such
\* accepted span has its region, every primary region is the region of such
\* a span, and there are as many primary regions as accepted spans.
C12_EmittedIffLikelySignature ==
    Detected =>
        LET candidates == {si \in HandwrittenSpans : PassedFilters(si) /\ SpanWords(si) # <<>>}
            accepted == {si \in candidates : Accepted(si)}
        IN  /\ \A si \in candidates : Emitted(si) <=> Accepted(si)
            /\ \A k \in DOMAIN PrimaryRegions :
                  \E si \in accepted : RegionOfSpan(si, PrimaryRegions[k])
            /\ Len(PrimaryRegions) = Cardinality(accepted)

\* the span "Max M." begins within 100 characters of "Unterschrift" and its
\* region is the one region returned
C12_Witness ==
    /\ Detected
    /\ \E si \in HandwrittenSpans :
          /\ SpanText(si) = <<"M", "a", "x", " ", "M", ".">>
          /\ \E i \in 1..Len(content) :
                /\ occursAt(content, i, labelText)
                /\ SpanOf(si).offset - (i - 1) < 100
          /\ Len(signatures) = 1
          /\ RegionOfSpan(si, signatures[1])

\* C13: form-field rejection overrides every acceptance signal of the primary
\* pass: a handwritten span whose trimmed text matches a form-field pattern
\* produces no region, whatever its proximity to a label and its position.
C13_FormFieldNeverEmitted ==
    Detected =>
        \A si \in HandwrittenSpans :
            matchesFormFieldPattern(SpanText(si)) => ~Emitted(si)

\* the span "123" is near a label by both signals and lies in the bottom
\* quarter; the region list holds the region of another span only
C13_Witness ==
    /\ Detected
    /\ \E si \in HandwrittenSpans :
          /\ SpanText(si) = <<"1", "2", "3">>
          /\ TextuallyNear(si) /\ SpatiallyNear(si) /\ InBottomQuarter(si)
          /\ ~Emitted(si)
    /\ Len(PrimaryRegions) = 1

\* C14: the fallback pass runs only if the primary pass emitted no region:
\* whenever the primary pass emitted at least one region the returned list is
\* exactly the list of the primary-pass regions and holds no fallback region.
C14_FallbackOnlyWhenPrimaryEmpty ==
    Detected =>
        LET primary == primaryPass(content, styles, sigPages, 1)
        IN  /\ Len(primary) > 0 => signatures = primary
            /\ (\E k \in DOMAIN signatures : IsFallbackRegion(signatures[k])) => Len(primary) = 0
            /\ Len(primary) > 0 => \A k \in DOMAIN signatures : ~IsFallbackRegion(signatures[k])

\* the primary pass emitted a region and the fallback pass, had it run, would
\* have pushed a region of its own
C14_Witness ==
    /\ Detected
    /\ Len(PrimaryRegions) > 0
    /\ signatures = PrimaryRegions
    /\ Len(fallbackPages(<<>>, sigPages, 1)) > 0
    /\ Len(fallbackPages(signatures, sigPages, 1)) > Len(signatures)

-----------------------------------------------------------------------------
(* The whitelists *)

WHITELISTED_ADDRESSES ==
    <<<<"D", "e", "u", "t", "s", "c", "h", "e", " ", "G", "r", "u", "n", "d", "s", "t", "ü", "c", "k", "s", "a", "u", "k", "t", "i", "o", "n", "e", "n", " ", "A", "G", ",", " ", "K", "u", "r", "f", "ü", "r", "s", "t", "e", "n", "d", "a", "m", "m", " ", "6", "5", ",", " ", "1", "0", "7", "0", "7", " ", "B", "e", "r", "l", "i", "n">>,
      <<"S", "ä", "c", "h", "s", "i", "s", "c", "h", "e", " ", "G", "r", "u", "n", "d", "s", "t", "ü", "c", "k", "s", "a", "u", "k", "t", "i", "o", "n", "e", "n", " ", "A", "G", ",", " ", "H", "o", "h", "e", " ", "S", "t", "r", "a", "ß", "e", " ", "1", "2", ",", " ", "0", "1", "0", "6", "9", " ", "D", "r", "e", "s", "d", "e", "n">>,
      <<"W", "E", "S", "T", "D", "E", "U", "T", "S", "C", "H", "E", " ", "G", "R", "U", "N", "D", "S", "T", "Ü", "C", "K", "S", "A", "U", "K", "T", "I", "O", "N", "E", "N", " ", "A", "G", ",", " ", "A", "p", "o", "s", "t", "e", "l", "n", "s", "t", "r", "a", "ß", "e", " ", "9", ",", " ", "5", "0", "6", "6", "7", " ", "K", "ö", "l", "n">>,
      <<"N", "o", "r", "d", "d", "e", "u", "t", "s", "c", "h", "e", " ", "G", "r", "u", "n", "d", "s", "t", "ü", "c", "k", "s", "a", "u", "k", "t", "i", "o", "n", "e", "n", " ", "A", "G", ",", " ", "E", "r", "n", "s", "t", "-", "B", "a", "r", "l", "a", "c", "h", "-", "S", "t", "r", "a", "s", "s", "e", " ", "4", ",", " ", "1", "8", "0", "5", "5", " ", "R", "o", "s", "t", "o", "c", "k">>,
      <<"P", "L", "E", "T", "T", "N", "E", "R", " ", "&", " ", "B", "R", "E", "C", "H", "T", " ", "I", "M", "M", "O", "B", "I", "L", "I", "E", "N", " ", "G", "M", "B", "H", ",", " ", "K", "i", "r", "s", "c", "h", "e", "n", "a", "l", "l", "e", "e", " ", "2", "0", ",", " ", "1", "4", "0", "5", "0", " ", "B", "e", "r", "l", "i", "n">>,
      <<"K", "u", "r", "f", "ü", "r", "s", "t", "e", "n", "d", "a", "m", "m", " ", "6", "5", ",", " ", "1", "0", "7", "0", "7", " ", "B", "e", "r", "l", "i", "n">>,
      <<"K", "u", "r", "f", "ü", "r", "s", "t", "e", "n", "d", "a", "m", "m", " ", "6", "5">>,
      <<"1", "0", "7", "0", "7", " ", "B", "e", "r", "l", "i", "n">>,
      <<"H", "o", "h", "e", " ", "S", "t", "r", "a", "ß", "e", " ", "1", "2", ",", " ", "0", "1", "0", "6", "9", " ", "D", "r", "e", "s", "d", "e", "n">>,
      <<"H", "o", "h", "e", " ", "S", "t", "r", "a", "ß", "e", " ", "1", "2">>,
      <<"0", "1", "0", "6", "9", " ", "D", "r", "e", "s", "d", "e", "n">>,
      <<"A", "p", "o", "s", "t", "e", "l", "n", "s", "t", "r", "a", "ß", "e", " ", "9", ",", " ", "5", "0", "6", "6", "7", " ", "K", "ö", "l", "n">>,
      <<"A", "p", "o", "s", "t", "e", "l", "n", "s", "t", "r", "a", "ß", "e", " ", "9">>,
      <<"5", "0", "6", "6", "7", " ", "K", "ö", "l", "n">>,
      <<"E", "r", "n", "s", "t", "-", "B", "a", "r", "l", "a", "c", "h", "-", "S", "t", "r", "a", "s", "s", "e", " ", "4", ",", " ", "1", "8", "0", "5", "5", " ", "R", "o", "s", "t", "o", "c", "k">>,
      <<"E", "r", "n", "s", "t", "-", "B", "a", "r", "l", "a", "c", "h", "-", "S", "t", "r", "a", "s", "s", "e", " ", "4">>,
      <<"1", "8", "0", "5", "5", " ", "R", "o", "s", "t", "o", "c", "k">>,
      <<"K", "i", "r", "s", "c", "h", "e", "n", "a", "l", "l", "e", "e", " ", "2", "0", ",", " ", "1", "4", "0", "5", "0", " ", "B", "e", "r", "l", "i", "n">>,
      <<"K", "i", "r", "s", "c", "h", "e", "n", "a", "l", "l", "e", "e", " ", "2", "0">>,
      <<"1", "4", "0", "5", "0", " ", "B", "e", "r", "l", "i", "n">>>>

WHITELISTED_ORGANIZATIONS ==
    <<<<"D", "e", "u", "t", "s", "c", "h", "e", " ", "G", "r", "u", "n", "d", "s", "t", "ü", "c", "k", "s", "a", "u", "k", "t", "i", "o", "n", "e", "n", " ", "A", "G">>,
      <<"S", "ä", "c", "h", "s", "i", "s", "c", "h", "e", " ", "G", "r", "u", "n", "d", "s", "t", "ü", "c", "k", "s", "a", "u", "k", "t", "i", "o", "n", "e", "n", " ", "A", "G">>,
      <<"W", "E", "S", "T", "D", "E", "U", "T", "S", "C", "H", "E", " ", "G", "R", "U", "N", "D", "S", "T", "Ü", "C", "K", "S", "A", "U", "K", "T", "I", "O", "N", "E", "N", " ", "A", "G">>,
      <<"N", "o", "r", "d", "d", "e", "u", "t", "s", "c", "h", "e", " ", "G", "r", "u", "n", "d", "s", "t", "ü", "c", "k", "s", "a", "u", "k", "t", "i", "o", "n", "e", "n", " ", "A", "G">>,
      <<"P", "L", "E", "T", "T", "N", "E", "R", " ", "&", " ", "B", "R", "E", "C", "H", "T", " ", "I", "M", "M", "O", "B", "I", "L", "I", "E", "N", " ", "G", "M", "B", "H">>>>

WHITELISTED_ROLE_WORDS ==
    <<<<"A", "n", "w", "e", "s", "e", "n", "d", "e", "n">>,
      <<"A", "u", "s", "b", "a", "u", "b", "e", "r", "e", "c", "h", "t", "i", "g", "t", "e", "n">>,
      <<"A", "u", "s", "b", "a", "u", "b", "e", "r", "e", "c", "h", "t", "i", "g", "t", "e">>,
      <<"B", "e", "a", "u", "f", "t", "r", "a", "g", "t", "e">>,
      <<"B", "e", "v", "o", "l", "l", "m", "ä", "c", "h", "t", "i", "g", "t", "e", "n">>,
      <<"E", "r", "s", "c", "h", "i", "e", "n", "e", "n", "e", "n">>,
      <<"E", "r", "b", "e", "n", "g", "e", "m", "e", "i", "n", "s", "c", "h", "a", "f", "t">>,
      <<"F", "a", "c", "h", "m", "a", "n", "n">>,
      <<"t", "e", "i", "l", "e", "n", "d", "e", " ", "E", "i", "g", "e", "n", "t", "ü", "m", "e", "r">>,
      <<"E", "i", "g", "e", "n", "t", "ü", "m", "e", "r">>,
      <<"E", "i", "g", "e", "n", "t", "ü", "m", "e", "r", "n">>,
      <<"N", "o", "t", "a", "r", "i", "n">>,
      <<"N", "o", "t", "a", "r">>,
      <<"N", "o", "t", "a", "r", "a", "m", "t", "e", "s">>,
      <<"N", "u", "t", "z", "u", "n", "g", "s", "b", "e", "r", "e", "c", "h", "t", "i", "g", "t", "e", "n">>,
      <<"S", "o", "n", "d", "e", "r", "n", "u", "t", "z", "u", "n", "g", "s", "b", "e", "r", "e", "c", "h", "t", "i", "g", "t", "e">>,
      <<"G", "e", "s", "c", "h", "ä", "f", "t", "s", "f", "ü", "h", "r", "e", "r">>,
      <<"I", "n", "h", "a", "b", "e", "r">>,
      <<"M", "i", "t", "e", "r", "b", "e", "n">>,
      <<"M", "i", "e", "t", "e", "r">>,
      <<"M", "i", "e", "t", "e", "r", "i", "n">>,
      <<"B", "e", "t", "e", "i", "l", "i", "g", "t", "e", "n">>,
      <<"M", "i", "t", "e", "i", "g", "e", "n", "t", "ü", "m", "e", "r">>,
      <<"T", "e", "i", "l", "e", "i", "g", "e", "n", "t", "ü", "m", "e", "r">>,
      <<"W", "o", "h", "n", "u", "n", "g", "s", "e", "i", "g", "e", "n", "t", "ü", "m", "e", "r">>,
      <<"W", "o", "h", "n", "u", "n", "g", "s", "e", "i", "g", "e", "n", "t", "ü", "m", "e", "r", "s">>,
      <<"V", "e", "r", "w", "a", "l", "t", "e", "r", "s">>,
      <<"V", "e", "r", "w", "a", "l", "t", "e", "r">>,
      <<"V", "e", "r", "w", "a", "l", "t", "e", "r", "i", "n">>,
      <<"V", "e", "r", "m", "i", "e", "t", "e", "r">>,
      <<"V", "e", "r", "m", "i", "e", "t", "e", "r", "i", "n">>,
      <<"V", "e", "r", "s", "a", "m", "m", "l", "u", "n", "g", "s", "l", "e", "i", "t", "e", "r">>,
      <<"D", "r", "i", "t", "t", "e", "r">>,
      <<"Z", "a", "h", "l", "e", "n", "d", "e", "r">>,
      <<"V", "e", "r", "m", "i", "e", "t", "e", "r", "s">>,
      <<"M", "i", "e", "t", "e", "r", "s">>,
      <<"D", "r", "i", "t", "t", "e">>,
      <<"B", "e", "w", "o", "h", "n", "e", "r">>,
      <<"G", "e", "b", "ä", "u", "d", "e">>,
      <<"P", "ä", "c", "h", "t", "e", "r">>,
      <<"P", "ä", "c", "h", "t", "e", "r", "s">>,
      <<"V", "e", "r", "p", "ä", "c", "h", "t", "e", "r">>,
      <<"V", "e", "r", "p", "ä", "c", "h", "t", "e", "r", "s">>,
      <<"A", "l", "l", "e", "i", "n", "p", "ä", "c", "h", "t", "e", "r">>,
      <<"N", "a", "c", "h", "f", "o", "l", "g", "e", "p", "ä", "c", "h", "t", "e", "r">>,
      <<"G", "r", "u", "n", "d", "s", "t", "ü", "c", "k">>,
      <<"B", "e", "t", "r", "i", "e", "b", "s", "n", "a", "c", "h", "f", "o", "l", "g", "e", "r">>,
      <<"L", "a", "n", "d", "w", "i", "r", "t", "s", "c", "h", "a", "f", "t", "s", "k", "a", "m", "m", "e", "r">>,
      <<"P", "a", "r", "t", "e", "i", "e", "n">>,
      <<"P", "a", "c", "h", "t", "v", "e", "r", "t", "r", "a", "g">>,
      <<"B", "e", "h", "ö", "r", "d", "e">>,
      <<"S", "a", "c", "h", "v", "e", "r", "s", "t", "ä", "n", "d", "i", "g", "e", "n">>,
      <<"V", "e", "r", "g", "l", "e", "i", "c", "h", "s", "w", "e", "r", "t", "e", " ", "E", "n", "d", "e", "n", "e", "r", "g", "i", "e">>,
      <<"V", "e", "r", "g", "l", "e", "i", "c", "h", "s", "w", "e", "r", "t", "e">>,
      <<"E", "n", "d", "e", "n", "e", "r", "g", "i", "e">>,
      <<"E", "n", "d", "e", "n", "e", "r", "g", "i", "e", "b", "e", "d", "a", "r", "f">>,
      <<"P", "r", "i", "m", "ä", "r", "e", "n", "e", "r", "g", "i", "e", "b", "e", "d", "a", "r", "f">>,
      <<"E", "n", "e", "r", "g", "i", "e", "e", "f", "f", "i", "z", "i", "e", "n", "z", "k", "l", "a", "s", "s", "e">>,
      <<"E", "n", "e", "r", "g", "i", "e", "a", "u", "s", "w", "e", "i", "s">>,
      <<"E", "n", "e", "r", "g", "i", "e", "b", "e", "d", "a", "r", "f">>,
      <<"E", "n", "e", "r", "g", "i", "e", "k", "e", "n", "n", "w", "e", "r", "t">>,
      <<"E", "E", "W", "ä", "r", "m", "e", "G">>,
      <<"E", "n", "E", "V">>,
      <<"W", "ä", "r", "m", "e", "s", "c", "h", "u", "t", "z">>,
      <<"A", "n", "f", "o", "r", "d", "e", "r", "u", "n", "g", "s", "w", "e", "r", "t">>,
      <<"E", "r", "s", "a", "t", "z", "m", "a", "ß", "n", "a", "h", "m", "e", "n">>,
      <<"E", "r", "l", "ä", "u", "t", "e", "r", "u", "n", "g", "e", "n">>,
      <<"B", "e", "r", "e", "c", "h", "n", "u", "n", "g", "s", "v", "e", "r", "f", "a", "h", "r", "e", "n">>,
      <<"P", "f", "l", "i", "c", "h", "t", "a", "n", "g", "a", "b", "e">>,
      <<"I", "m", "m", "o", "b", "i", "l", "i", "e", "n", "a", "n", "z", "e", "i", "g", "e", "n">>,
      <<"A", "n", "g", "a", "b", "e", "n", " ", "z", "u", "m">>,
      <<"D", "r", "i", "t", "t", "e", "n">>,
      <<"b", "e", "h", "i", "n", "d", "e", "r", "t", "e", "n", "g", "e", "r", "e", "c", "h", "t", "e">>,
      <<"E", "r", "f", "ü", "l", "l", "u", "n", "g", "s", "g", "e", "h", "i", "l", "f", "e", "n">>,
      <<"B", "e", "a", "u", "f", "t", "r", "a", "g", "t", "e", "n">>>>

-----------------------------------------------------------------------------
(* normalizeText, and the copy of it in the entity filter *)

\* \w of a regular expression without the u flag: ASCII letters, digits, _
WordChars ==
    {UpperCaseLetters[i] : i \in 1..26} \cup {LowerCaseLetters[i] : i \in 1..26}
        \cup Digits \cup {"_"}

\* \b at the gap before index i of s (i in 1..Len(s) + 1)
wordBoundary(s, i) ==
    (i > 1 /\ s[i - 1] \in WordChars) # (i <= Len(s) /\ s[i] \in WordChars)

\* pieces[lo] \o ... \o pieces[hi], joined half by half
RECURSIVE joinRange(_, _, _)
joinRange(pieces, lo, hi) ==
    IF lo > hi THEN <<>>
    ELSE IF lo = hi THEN pieces[lo]
    ELSE joinRange(pieces, lo, (lo + hi) \div 2) \o joinRange(pieces, (lo + hi) \div 2 + 1, hi)

\* the k-th smallest member of a set of numbers
kth(S, k) == CHOOSE p \in S : Cardinality({q \in S : q < p}) = k - 1

\* s.replace(/pattern/g, replacement) given the indices where a match
\* begins; the patterns replaced here cannot overlap themselves, so every
\* occurrence is a match
replaceMatches(s, starts, length, replacement) ==
    joinRange([i \in 1..Len(s) |->
                  IF i \in starts THEN replacement
                  ELSE IF \E m \in starts : m < i /\ i < m + length THEN <<>>
                  ELSE <<s[i]>>], 1, Len(s))

\* s.replace(/pattern/g, replacement) for a literal pattern
replaceAll(s, pattern, replacement) ==
    replaceMatches(s, {i \in 1..Len(s) : occursAt(s, i, pattern)}, Len(pattern), replacement)

\* s.replace(/\bstr\b/gi, 'strasse'); s is in lower case
replaceStrWord(s) ==
    replaceMatches(s, {i \in 1..Len(s) : /\ occursAt(s, i, <<"s", "t", "r">>)
                                         /\ wordBoundary(s, i)
                                         /\ wordBoundary(s, i + 3)},
                   3, <<"s", "t", "r", "a", "s", "s", "e">>)

\* s.replace(/[\r\n,\-\.]/g, ' ')
replaceSeparators(s) ==
    [i \in 1..Len(s) |-> IF s[i] \in {"\r", "\n", ",", "-", "."} THEN " " ELSE s[i]]

\* s.replace(/\s+/g, ' '): each run of whitespace leaves one space
collapseWhitespace(s) ==
    joinRange([i \in 1..Len(s) |->
                  IF s[i] \notin Whitespace THEN <<s[i]>>
                  ELSE IF i > 1 /\ s[i - 1] \in Whitespace THEN <<>>
                  ELSE <<" ">>], 1, Len(s))

normalizeTextKeepingAbbreviation(text) ==
    trim(collapseWhitespace(replaceSeparators(
        replaceAll(replaceAll(replaceAll(replaceAll(toLowerCase(text),
            <<"ß">>, <<"s", "s">>), <<"ä">>, <<"a", "e">>), <<"ö">>, <<"o", "e">>),
            <<"ü">>, <<"u", "e">>))))

normalizeText(text) ==
    LET lower == toLowerCase(text)
        folded == replaceAll(replaceAll(replaceAll(replaceAll(lower,
                      <<"ß">>, <<"s", "s">>), <<"ä">>, <<"a", "e">>), <<"ö">>, <<"o", "e">>),
                      <<"ü">>, <<"u", "e">>)
        expanded == replaceStrWord(
                        replaceAll(folded, <<"s", "t", "r", ".">>,
                                   <<"s", "t", "r", "a", "s", "s", "e">>))
    IN  trim(collapseWhitespace(replaceSeparators(expanded)))

\* the pieces of s between the separators: firsts and lasts are the indices
\* where the separators begin and end, in pairs
piecesBetween(s, firsts, lasts) ==
    [k \in 1..(Cardinality(firsts) + 1) |->
        SubSeq(s, IF k = 1 THEN 1 ELSE kth(lasts, k - 1) + 1,
                  IF k > Cardinality(firsts) THEN Len(s) ELSE kth(firsts, k) - 1)]

\* s.split(' ')
split(s) ==
    LET spaces == {i \in 1..Len(s) : s[i] = " "}
    IN  piecesBetween(s, spaces, spaces)

\* s.split(/\s+/): a separator is a whole run of whitespace
splitWhitespace(s) ==
    piecesBetween(s,
        {i \in 1..Len(s) : s[i] \in Whitespace /\ (i = 1 \/ s[i - 1] \notin Whitespace)},
        {i \in 1..Len(s) : s[i] \in Whitespace /\ (i = Len(s) \/ s[i + 1] \notin Whitespace)})

-----------------------------------------------------------------------------
(* isWhitelisted *)

\* the whitelists, normalized as each loop of isWhitelisted normalizes them
normalizedRoles == [r \in DOMAIN WHITELISTED_ROLE_WORDS |-> normalizeText(WHITELISTED_ROLE_WORDS[r])]
normalizedOrgs == [o \in DOMAIN WHITELISTED_ORGANIZATIONS |-> normalizeText(WHITELISTED_ORGANIZATIONS[o])]
normalizedAddresses == [a \in DOMAIN WHITELISTED_ADDRESSES |-> normalizeText(WHITELISTED_ADDRESSES[a])]

\* array.includes(x)
arrayIncludes(array, x) == \E i \in DOMAIN array : array[i] = x

\* new RegExp(`\\b${normalizedRole}\\b`, 'i').test(normalizedEntity)
roleWordRegexTest(normalizedEntity, normalizedRole) ==
    \E i \in 1..(Len(normalizedEntity) - Len(normalizedRole) + 1) :
        /\ occursAt(normalizedEntity, i, normalizedRole)
        /\ wordBoundary(normalizedEntity, i)
        /\ wordBoundary(normalizedEntity, i + Len(normalizedRole))

roleWordMatchesAsSubstring(normalizedEntity, normalizedRole) ==
    includes(normalizedEntity, normalizedRole)

\* one iteration of the loop over WHITELISTED_ROLE_WORDS
roleWordMatches(normalizedEntity, normalizedRole) ==
    LET entityWords == split(normalizedEntity)
    IN  \/ normalizedEntity = normalizedRole
        \/ Len(entityWords) = 1 /\ entityWords[1] = normalizedRole
        \/ arrayIncludes(entityWords, normalizedRole)
        \/ roleWordRegexTest(normalizedEntity, normalizedRole)

isWhitelistedRole(normalizedEntity) ==
    \E r \in DOMAIN normalizedRoles : roleWordMatches(normalizedEntity, normalizedRoles[r])

\* one iteration of the loop over WHITELISTED_ORGANIZATIONS
isWhitelistedOrganization(normalizedEntity) ==
    \E o \in DOMAIN normalizedOrgs :
        \/ normalizedEntity = normalizedOrgs[o]
        \/ includes(normalizedEntity, normalizedOrgs[o])
        \/ includes(normalizedOrgs[o], normalizedEntity)

\* split(' ').filter(p => p.length > 2)
longParts(s) == SelectSeq(split(s), LAMBDA p : Len(p) > 2)

\* one iteration of the loop over WHITELISTED_ADDRESSES
addressMatches(normalizedEntity, normalizedAddress) ==
    \/ includes(normalizedEntity, normalizedAddress)
    \/ includes(normalizedAddress, normalizedEntity)
    \/ LET addressParts == longParts(normalizedAddress)
           entityParts == longParts(normalizedEntity)
           matchingParts ==
               SelectSeq(addressParts,
                         LAMBDA part : \E e \in DOMAIN entityParts :
                             \/ entityParts[e] = part
                             \/ includes(entityParts[e], part)
                             \/ includes(part, entityParts[e]))
       IN  \* matchRatio >= 0.5 && matchingParts.length >= 2
           /\ Len(addressParts) > 0
           /\ 2 * Len(matchingParts) >= Len(addressParts)
           /\ Len(matchingParts) >= 2

isWhitelistedAddress(normalizedEntity) ==
    \E a \in DOMAIN normalizedAddresses : addressMatches(normalizedEntity, normalizedAddresses[a])

isWhitelisted(entityText) ==
    LET normalizedEntity == normalizeText(entityText)
    IN  \/ isWhitelistedRole(normalizedEntity)
        \/ isWhitelistedOrganization(normalizedEntity)
        \/ isWhitelistedAddress(normalizedEntity)

-----------------------------------------------------------------------------
(* The entity filter of the request handler: noise suppression *)

\* parseInt(part, 10): an optional sign and the leading digits of the text,
\* whatever follows them; NaN when no digit leads
digitValue(c) == CHOOSE d \in 0..9 : <<"0", "1", "2", "3", "4", "5", "6", "7", "8", "9">>[d + 1] = c

RECURSIVE leadingDigits(_, _, _)
leadingDigits(s, i, value) ==
    IF i > Len(s) \/ s[i] \notin Digits THEN [digits |-> i - 1, value |-> value]
    ELSE leadingDigits(s, i + 1, 10 * value + digitValue(s[i]))

parseInt(part) ==
    LET t == trim(part)
        signed == Len(t) > 0 /\ t[1] \in {"+", "-"}
        body == IF signed THEN Tail(t) ELSE t
        lead == leadingDigits(body, 1, 0)
    IN  IF lead.digits = 0 THEN [isNaN |-> TRUE, value |-> 0]
        ELSE [isNaN |-> FALSE,
              value |-> IF signed /\ t[1] = "-" THEN 0 - lead.value ELSE lead.value]

\* entity.text.replace(/[\n\r]/g, ' ').trim()
entityTextClean(text) == trim([i \in 1..Len(text) |-> IF text[i] \in {"\n", "\r"} THEN " " ELSE text[i]])

\* the three tests on an entity of category Organization: the rule that
\* drops it, or "none"
organizationNoise(clean) ==
    IF isEnergyRating(clean) THEN "energy-rating"
    ELSE IF isShortNumber(clean) /\ parseInt(clean).value >= 0 /\ parseInt(clean).value <= 300
    THEN "scale-number"
    ELSE IF Len(clean) <= 2 THEN "too-short"
    ELSE "none"

\* entityTextClean.split(/\s+/).filter(s => s.length > 0)
numberParts(clean) == SelectSeq(splitWhitespace(clean), LAMBDA p : Len(p) > 0)

\* the energy-scale test: at least 3 parts, all small numbers, incrementing
\* or evenly spaced by 25 or 50
isEnergyScale(clean) ==
    LET parts == numberParts(clean)
        nums == [i \in DOMAIN parts |-> parseInt(parts[i])]
        allAreSmallNumbers ==
            \A i \in DOMAIN nums : ~nums[i].isNaN /\ nums[i].value >= 0 /\ nums[i].value <= 300
        isIncrementing == \A i \in 2..Len(nums) : nums[i].value > nums[i - 1].value
        firstDiff == IF Len(nums) >= 2 THEN nums[2].value - nums[1].value ELSE 0
        isEvenlySpaced ==
            /\ firstDiff \in {25, 50}
            /\ \A i \in 2..Len(nums) : nums[i].value - nums[i - 1].value = firstDiff
    IN  /\ Len(parts) >= 3
        /\ allAreSmallNumbers
        /\ isIncrementing \/ isEvenlySpaced

-----------------------------------------------------------------------------
(* The entity filter: dynamic exclusion against excludeAddress *)

minOf(S) == CHOOSE x \in S : \A y \in S : x <= y

\* one pass of the inner loop of calculateSimilarity's edit distance: the
\* costs array after the character s1[i], from the array before it. Cell j
\* takes costs[j - 1] where the characters agree and otherwise one more than
\* the least of costs[j - 1], costs[j] and the cell to its left; the chain of
\* cells to the left is followed back to the last cell that did not use it
\* (columns are numbered from 0 in the code, from 1 in the sequence)
fillRow(costs, i, s1, s2) ==
    LET same(j) == s1[i] = s2[j]
        aside(j) == IF same(j) THEN costs[j] ELSE min2(costs[j], costs[j + 1]) + 1
        lastSame(j) == IF \E k \in 1..j : same(k)
                       THEN CHOOSE k \in 1..j : same(k) /\ \A l \in (k + 1)..j : ~same(l)
                       ELSE 0
        newValue(j) ==
            IF same(j) THEN costs[j]
            ELSE minOf({(IF lastSame(j) = 0 THEN i ELSE costs[lastSame(j)]) + (j - lastSame(j))}
                       \cup {aside(k) + (j - k) : k \in (lastSame(j) + 1)..j})
    IN  <<i>> \o [j \in 1..Len(s2) |-> newValue(j)]

\* the rows from the one after costs on (costs[1] is the index of its row)
RECURSIVE editRows(_, _, _)
editRows(s1, s2, costs) ==
    IF costs[1] >= Len(s1) THEN costs[Len(s2) + 1]
    ELSE editRows(s1, s2, fillRow(costs, costs[1] + 1, s1, s2))

editDistance(s1, s2) == editRows(s1, s2, <<0>> \o [j \in 1..Len(s2) |-> j])

\* calculateSimilarity(str1, str2) >= percent / 100
similarityAtLeast(str1, str2, percent) ==
    LET longer == IF Len(str1) > Len(str2) THEN str1 ELSE str2
        shorter == IF Len(str1) > Len(str2) THEN str2 ELSE str1
    IN  IF Len(longer) = 0 THEN TRUE
        ELSE 100 * (Len(longer) - editDistance(longer, shorter)) >= percent * Len(longer)

\* array.find(test) || ''
findOrEmpty(array, test(_)) ==
    LET hits == SelectSeq(array, test)
    IN  IF Len(hits) = 0 THEN <<>> ELSE hits[1]

\* /strasse|str/i.test(p), /^\d+[a-z]?$/i.test(p), /^\d{5}$/.test(p)
looksLikeStreet(p) == includes(toLowerCase(p), <<"s", "t", "r">>)
looksLikeNumber(p) ==
    \/ Len(p) >= 1 /\ AllIn(p, Digits)
    \/ /\ Len(p) >= 2
       /\ AllIn(SubSeq(p, 1, Len(p) - 1), Digits)
       /\ toLowerCaseChar(p[Len(p)]) \in {LowerCaseLetters[i] : i \in 1..26}

extractComponents(addr) ==
    LET parts == SelectSeq(split(addr), LAMBDA p : Len(p) > 0)
    IN  [street |-> findOrEmpty(parts, looksLikeStreet),
         number |-> findOrEmpty(parts, looksLikeNumber),
         postal |-> findOrEmpty(parts, isPostalCode),
         city |-> findOrEmpty(parts, LAMBDA part : /\ Len(part) > 2
                                                   /\ ~looksLikeStreet(part)
                                                   /\ ~looksLikeNumber(part)
                                                   /\ ~isPostalCode(part))]

substringMatchNever(normalizedEntityText, normalizedExcludeAddress) == FALSE

\* METHOD 1: direct substring matching
substringMatch(normalizedEntityText, normalizedExcludeAddress) ==
    \/ includes(normalizedEntityText, normalizedExcludeAddress)
    \/ includes(normalizedExcludeAddress, normalizedEntityText)

\* METHOD 3: significant parts of the excluded address
partialMatch(normalizedEntityText, normalizedExcludeAddress) ==
    LET excludeParts == longParts(normalizedExcludeAddress)
        entityParts == longParts(normalizedEntityText)
        matchingParts ==
            SelectSeq(excludeParts,
                      LAMBDA part : \E e \in DOMAIN entityParts :
                          \/ entityParts[e] = part
                          \/ similarityAtLeast(entityParts[e], part, 85))
    IN  \* matchRatio >= 0.6 && matchingParts.length >= 2
        /\ Len(excludeParts) > 0
        /\ 10 * Len(matchingParts) >= 6 * Len(excludeParts)
        /\ Len(matchingParts) >= 2

\* METHOD 4: component-based matching, 2 out of 4 components
componentMatch(normalizedEntityText, normalizedExcludeAddress) ==
    LET entityComponents == extractComponents(normalizedEntityText)
        excludeComponents == extractComponents(normalizedExcludeAddress)
        hasComponents ==
            \/ entityComponents.street # <<>>
            \/ entityComponents.number # <<>>
            \/ entityComponents.postal # <<>>
            \/ entityComponents.city # <<>>
        street == /\ entityComponents.street # <<>> /\ excludeComponents.street # <<>>
                  /\ similarityAtLeast(entityComponents.street, excludeComponents.street, 75)
        number == /\ entityComponents.number # <<>> /\ excludeComponents.number # <<>>
                  /\ entityComponents.number = excludeComponents.number
        postal == /\ entityComponents.postal # <<>> /\ excludeComponents.postal # <<>>
                  /\ entityComponents.postal = excludeComponents.postal
        city == /\ entityComponents.city # <<>> /\ excludeComponents.city # <<>>
                /\ similarityAtLeast(entityComponents.city, excludeComponents.city, 75)
        matchCount == (IF street THEN 1 ELSE 0) + (IF number THEN 1 ELSE 0)
                        + (IF postal THEN 1 ELSE 0) + (IF city THEN 1 ELSE 0)
    IN  hasComponents /\ matchCount >= 2

\* the ordered chain of the four methods: the one that excludes, or "keep"
dynamicExclusion(entityText, addressText) ==
    LET normalizedEntityText == normalizeText(entityText)
        normalizedExcludeAddress == normalizeText(addressText)
    IN  IF substringMatch(normalizedEntityText, normalizedExcludeAddress) THEN "substring"
        ELSE IF similarityAtLeast(normalizedEntityText, normalizedExcludeAddress, 85)
        THEN "similarity"
        ELSE IF partialMatch(normalizedEntityText, normalizedExcludeAddress) THEN "partial"
        ELSE IF componentMatch(normalizedEntityText, normalizedExcludeAddress) THEN "component"
        ELSE "keep"

hasExcludeAddressAlways(address) == TRUE

\* the test if (!excludeAddress) return true, negated
hasExcludeAddress(address) == address.given /\ address.text # <<>>

\* the callback of entities.filter: the rule that decides on the entity
filterDecision(entity, address) ==
    LET clean == entityTextClean(entity.text)
        noise == IF entity.category = "Organization" THEN organizationNoise(clean) ELSE "none"
    IN  IF isWhitelisted(entity.text) THEN "whitelist"
        ELSE IF noise # "none" THEN noise
        ELSE IF isEnergyScale(clean) THEN "energy-scale"
        ELSE IF ~hasExcludeAddress(address) THEN "keep"
        ELSE dynamicExclusion(entity.text, address.text)

-----------------------------------------------------------------------------
(* The entities and addresses the filter is run on *)

\* largest number of entities handed to the filter
MaxFilterEntities == 2

\* the entity texts of the model with the categories the NER gives them
FilterCatalogue ==
    <<[text |-> <<"M", "u", "s", "t", "e", "r", "s", "t", "r", ".", " ", "5", " ", "1", "2", "3", "4", "5", " ", "M", "u", "s", "t", "e", "r", "s", "t", "a", "d", "t">>,
       category |-> "Address"],
      [text |-> <<"M", "u", "s", "t", "e", "r", "s", "t", "r", "a", "ß", "e">>,
       category |-> "Address"],
      [text |-> <<"M", "u", "s", "t", "e", "r", "s", "t", "r", "a", "s", "s", "e">>,
       category |-> "Address"],
      [text |-> <<"M", "u", "s", "t", "e", "r", " ", "S", "t", "r", ".">>,
       category |-> "Address"],
      [text |-> <<"M", "u", "s", "t", "e", "r", "w", "e", "g", " ", "5", ",", " ", "1", "2", "3", "4", "5", " ", "N", "e", "u", "s", "t", "a", "d", "t">>,
       category |-> "Address"],
      [text |-> <<"K", "u", "r", "f", "ü", "r", "s", "t", "e", "n", "d", "a", "m", "m", " ", "6", "5">>,
       category |-> "Address"],
      [text |-> <<"2", "5", " ", "5", "0", " ", "7", "5", " ", "1", "0", "0">>,
       category |-> "Organization"],
      [text |-> <<"2", "5", " ", "5", "0", " ", "7", "5", " ", "1", "0", "0">>,
       category |-> "PhoneNumber"],
      [text |-> <<"1", "7", " ", "2", "0", "3", " ", "4">>,
       category |-> "PhoneNumber"],
      [text |-> <<"1", "0", " ", "2", "0", " ", "3", "0">>,
       category |-> "PhoneNumber"],
      [text |-> <<"2", "5", " ", "5", "0", " ", "7", "5", "k", "W", "h">>,
       category |-> "PhoneNumber"],
      [text |-> <<"B">>,
       category |-> "Organization"],
      [text |-> <<"7", "5">>,
       category |-> "Organization"],
      [text |-> <<"V", "e", "r", "w", "a", "l", "t", "e", "r">>,
       category |-> "Person"],
      [text |-> <<"V", "e", "r", "w", "a", "l", "t", "e", "r", "i", "n", " ", "S", "c", "h", "m", "i", "d", "t">>,
       category |-> "Person"],
      [text |-> <<"H", "a", "u", "s", "v", "e", "r", "w", "a", "l", "t", "e", "r", " ", "S", "c", "h", "m", "i", "d", "t">>,
       category |-> "Person"],
      [text |-> <<"M", "a", "x", " ", "M", "u", "s", "t", "e", "r", "m", "a", "n", "n">>,
       category |-> "Person"],
      [text |-> <<"D", "e", "u", "t", "s", "c", "h", "e", " ", "G", "r", "u", "n", "d", "s", "t", "ü", "c", "k", "s", "a", "u", "k", "t", "i", "o", "n", "e", "n", " ", "A", "G">>,
       category |-> "Organization"],
      [text |-> <<"M", "u", "s", "t", "e", "r", "s", "t", "r", ".">>,
       category |-> "Address"],
      [text |-> <<"V", "e", "r", "w", "a", "l", "t", "e", "r", "/", "S", "c", "h", "m", "i", "d", "t">>,
       category |-> "Person"]>>

MusterAddress == <<"M", "u", "s", "t", "e", "r", "s", "t", "r", "a", "ß", "e", " ", "5", ",", " ", "1", "2", "3", "4", "5", " ", "M", "u", "s", "t", "e", "r", "s", "t", "a", "d", "t">>

\* fields.excludeAddress: not sent, sent empty, sent blank, sent filled in
ExcludeAddresses ==
    {[given |-> FALSE, text |-> <<>>],
     [given |-> TRUE, text |-> <<>>],
     [given |-> TRUE, text |-> <<" ">>],
     [given |-> TRUE, text |-> MusterAddress]}

\* the catalogue entries picked, in catalogue order
Picks == {p \in SUBSET DOMAIN FilterCatalogue : Cardinality(p) <= MaxFilterEntities}

RECURSIVE pickedFrom(_, _, _)
pickedFrom(picks, i, offset) ==
    IF i > Len(FilterCatalogue) THEN <<>>
    ELSE IF i \in picks
    THEN <<[text |-> FilterCatalogue[i].text, category |-> FilterCatalogue[i].category,
            offset |-> offset, length |-> Len(FilterCatalogue[i].text)]>>
         \o pickedFrom(picks, i + 1, offset + Len(FilterCatalogue[i].text) + 1)
    ELSE pickedFrom(picks, i + 1, offset)

\* the entity list of a pick: the texts one after the other in the document
entitiesOf(picks) == pickedFrom(picks, 1, 0)

\* filterDecision and normalizeText are pure: they are worked out once for
\* every entity and every address of the model and looked up from then on
filterTable ==
    {[entity |-> c, address |-> address,
      normalized |-> normalizeText(FilterCatalogue[c].text),
      roleWord |-> isWhitelistedRole(normalizeText(FilterCatalogue[c].text)),
      rule |-> filterDecision(FilterCatalogue[c], address)] :
        c \in DOMAIN FilterCatalogue, address \in ExcludeAddresses}

catalogueIndex(entity) ==
    CHOOSE c \in DOMAIN FilterCatalogue :
        /\ FilterCatalogue[c].text = entity.text
        /\ FilterCatalogue[c].category = entity.category

filterRow(entity, address) ==
    CHOOSE row \in filterTable : row.entity = catalogueIndex(entity) /\ row.address = address

\* what the filter leaves behind for each entity: the normalized text
\* isWhitelisted computes, whether its loop over the role words returned
\* true, and the rule that decided
filterLogOf(ents, address) ==
    [i \in DOMAIN ents |->
        [normalized |-> filterRow(ents[i], address).normalized,
         roleWord |-> filterRow(ents[i], address).roleWord,
         rule |-> filterRow(ents[i], address).rule]]

\* entities.filter(entity => ...)
RECURSIVE filterFrom(_, _, _)
filterFrom(ents, address, i) ==
    IF i > Len(ents) THEN <<>>
    ELSE (IF filterRow(ents[i], address).rule = "keep" THEN <<ents[i]>> ELSE <<>>)
         \o filterFrom(ents, address, i + 1)

filterEntities(ents, address) == filterFrom(ents, address, 1)

-----------------------------------------------------------------------------
(* The filter as a state machine: the inputs are drawn, then filtered *)

InitFilter ==
    /\ \E picks \in Picks : unfiltered = entitiesOf(picks)
    /\ excludeAddress \in ExcludeAddresses
    /\ filteredEntities = <<>>
    /\ filterLog = <<>>
    /\ filterPc = "input"
    /\ MergeIdle
    /\ MapIdle
    /\ SigIdle
    /\ PIIIdle
    /\ OCRIdle
    /\ PostIdle
    /\ PatternIdle
    /\ PageIdle
    /\ LogIdle

Filter ==
    /\ filterPc = "input"
    /\ filteredEntities' = filterEntities(unfiltered, excludeAddress)
    /\ filterLog' = filterLogOf(unfiltered, excludeAddress)
    /\ filterPc' = "filtered"
    /\ UNCHANGED <<unfiltered, excludeAddress>>
    /\ UNCHANGED mergeVars
    /\ UNCHANGED mapVars
    /\ UNCHANGED sigVars
    /\ UNCHANGED piiVars
    /\ UNCHANGED ocrVars
    /\ UNCHANGED postVars
    /\ UNCHANGED patternVars
    /\ UNCHANGED pageVars
    /\ UNCHANGED logVars

NextFilter == Filter

SpecFilter == InitFilter /\ [][NextFilter]_vars

-----------------------------------------------------------------------------
(* The entity filter: vocabulary of the properties *)

Filtered == filterPc = "filtered"

\* the entities the filter returned
Kept == {filteredEntities[i] : i \in DOMAIN filteredEntities}

\* the catalogue entries that are whitelisted or dropped by a
\* noise-suppression rule, whatever the address
StaticallyDropped ==
    {c \in DOMAIN FilterCatalogue :
        LET clean == entityTextClean(FilterCatalogue[c].text)
        IN  \/ isWhitelisted(FilterCatalogue[c].text)
            \/ FilterCatalogue[c].category = "Organization" /\ organizationNoise(clean) # "none"
            \/ isEnergyScale(clean)}

StaticallyKept(entity) == catalogueIndex(entity) \notin StaticallyDropped

NoExcludeAddress == ~excludeAddress.given \/ excludeAddress.text = <<>>

\* C15: with excludeAddress absent or empty an entity is kept iff it is
\* neither whitelisted nor dropped by a noise-suppression rule, and with any
\* excludeAddress every kept entity is one that is kept without an address
C15_DynamicExclusionOnlyWithAddress ==
    Filtered =>
        /\ NoExcludeAddress =>
               \A i \in DOMAIN unfiltered :
                   unfiltered[i] \in Kept <=> StaticallyKept(unfiltered[i])
        /\ \A entity \in Kept :
               /\ \E i \in DOMAIN unfiltered : unfiltered[i] = entity
               /\ StaticallyKept(entity)

\* an empty address was sent, and an entity that the address of the scenario
\* would exclude is kept beside one that is whitelisted and dropped
C15_Witness ==
    /\ Filtered
    /\ excludeAddress = [given |-> TRUE, text |-> <<>>]
    /\ Len(unfiltered) = 2
    /\ unfiltered[1].text = FilterCatalogue[1].text
    /\ unfiltered[1] \in Kept
    /\ unfiltered[2] \notin Kept
    /\ filterRow(unfiltered[1], [given |-> TRUE, text |-> MusterAddress]).rule = "substring"

\* the position of a catalogue text among the entities handed in, 0 if absent
positionOf(text) ==
    IF \E i \in DOMAIN unfiltered : unfiltered[i].text = text
    THEN CHOOSE i \in DOMAIN unfiltered : unfiltered[i].text = text
    ELSE 0

MusterEntity == FilterCatalogue[1].text

ScenarioAddress == excludeAddress = [given |-> TRUE, text |-> MusterAddress]

\* C16 as stated: with the address of the scenario the entity
\* "Musterstr. 5 12345 Musterstadt" is excluded by the component match
C16_ExcludedByComponentMatch ==
    Filtered /\ ScenarioAddress /\ positionOf(MusterEntity) > 0 =>
        /\ unfiltered[positionOf(MusterEntity)] \notin Kept
        /\ filterLog[positionOf(MusterEntity)].rule = "component"

\* C16 amended: the entity is excluded, and the rule that excludes it is the
\* substring match, the first of the chain: both texts normalize to
\* "musterstrasse 5 12345 musterstadt"
C16_ExcludedBySubstringMatch ==
    Filtered /\ ScenarioAddress /\ positionOf(MusterEntity) > 0 =>
        /\ unfiltered[positionOf(MusterEntity)] \notin Kept
        /\ filterLog[positionOf(MusterEntity)].rule = "substring"
        /\ filterLog[positionOf(MusterEntity)].normalized = normalizeText(MusterAddress)

\* the scenario has run, beside an entity that only the component match excludes
C16_Witness ==
    /\ Filtered
    /\ ScenarioAddress
    /\ Len(unfiltered) = 2
    /\ unfiltered[1].text = MusterEntity
    /\ filterLog[2].rule = "component"
    /\ filteredEntities = <<>>

Musterstrasse == <<"m", "u", "s", "t", "e", "r", "s", "t", "r", "a", "s", "s", "e">>

\* the spellings of the street the claim names, and the abbreviation written
\* without a space
SpellingsClaimed == {FilterCatalogue[2].text, FilterCatalogue[3].text, FilterCatalogue[4].text}
SpellingsJoined == {FilterCatalogue[2].text, FilterCatalogue[3].text, FilterCatalogue[19].text}

\* C17 as stated: "Musterstraße", "Musterstrasse" and "Muster Str." all
\* normalize to the same string
C17_SpellingsNormalizeAlike ==
    Filtered =>
        \A i, j \in DOMAIN unfiltered :
            unfiltered[i].text \in SpellingsClaimed /\ unfiltered[j].text \in SpellingsClaimed
                => filterLog[i].normalized = filterLog[j].normalized

\* C17 amended: "Musterstraße", "Musterstrasse" and "Musterstr." normalize to
\* "musterstrasse"; "Muster Str." normalizes to "muster strasse", the
\* abbreviation expanded and the space kept
C17_JoinedSpellingsNormalizeAlike ==
    Filtered =>
        \A i \in DOMAIN unfiltered :
            /\ unfiltered[i].text \in SpellingsJoined => filterLog[i].normalized = Musterstrasse
            /\ unfiltered[i].text = FilterCatalogue[4].text
                   => filterLog[i].normalized = <<"m", "u", "s", "t", "e", "r", " ">> \o SubSeq(Musterstrasse, 7, 13)

\* "Musterstraße" and "Musterstr." have been normalized in one run
C17_Witness ==
    /\ Filtered
    /\ Len(unfiltered) = 2
    /\ unfiltered[1].text = FilterCatalogue[2].text
    /\ unfiltered[2].text = FilterCatalogue[19].text
    /\ filterLog[1].normalized = filterLog[2].normalized

\* a token that is a whole number, digits and nothing else
isInteger(part) == Len(part) >= 1 /\ AllIn(part, Digits)

\* the energy-scale table artifact as the rule is stated: at least 3
\* whitespace tokens, all integers of 0..300, strictly increasing or evenly
\* spaced by 25 or 50
IsEnergyScaleText(text) ==
    LET parts == numberParts(entityTextClean(text))
        value(i) == parseInt(parts[i]).value
    IN  /\ Len(parts) >= 3
        /\ \A i \in DOMAIN parts : isInteger(parts[i]) /\ value(i) >= 0 /\ value(i) <= 300
        /\ \/ \A i \in 2..Len(parts) : value(i) > value(i - 1)
           \/ /\ value(2) - value(1) \in {25, 50}
              /\ \A i \in 2..Len(parts) : value(i) - value(i - 1) = value(2) - value(1)

EnergyScaleTexts == {c \in DOMAIN FilterCatalogue : IsEnergyScaleText(FilterCatalogue[c].text)}

\* C18: an entity that reaches the energy-scale rule is dropped by it exactly
\* when its text is an energy-scale sequence of whole numbers; a text with a
\* token that is a number followed by letters is not dropped by the rule
C18_EnergyScaleExactlyIntegers ==
    Filtered =>
        \A i \in DOMAIN unfiltered :
            filterLog[i].rule \notin {"whitelist", "energy-rating", "scale-number", "too-short"}
                => (filterLog[i].rule = "energy-scale"
                        <=> catalogueIndex(unfiltered[i]) \in EnergyScaleTexts)

\* a whole token of s: an occurrence of the word with no word character
\* before it and none after it
occursAsToken(s, word) ==
    \E i \in 1..(Len(s) - Len(word) + 1) :
        /\ occursAt(s, i, word)
        /\ i = 1 \/ s[i - 1] \notin WordChars
        /\ i + Len(word) > Len(s) \/ s[i + Len(word)] \notin WordChars

\* C19: the role-word rule of isWhitelisted excludes an entity exactly when
\* its normalized text equals a role word or contains one as a whole token;
\* a role word that is a proper part of a longer token does not fire it
C19_RoleWordOnTokenBoundaries ==
    Filtered =>
        \A i \in DOMAIN unfiltered :
            /\ filterLog[i].roleWord <=>
                   \E r \in DOMAIN normalizedRoles :
                       \/ filterLog[i].normalized = normalizedRoles[r]
                       \/ occursAsToken(filterLog[i].normalized, normalizedRoles[r])
            /\ filterLog[i].roleWord => unfiltered[i] \notin Kept

\* "Verwalterin Schmidt" was excluded by the role-word rule and "Hausverwalter
\* Schmidt", where the role word is part of a longer token, was kept
C19_Witness ==
    /\ Filtered
    /\ NoExcludeAddress
    /\ Len(unfiltered) = 2
    /\ unfiltered[1].text = FilterCatalogue[15].text
    /\ filterLog[1].roleWord
    /\ unfiltered[2].text = FilterCatalogue[16].text
    /\ ~filterLog[2].roleWord
    /\ filteredEntities = <<unfiltered[2]>>

-----------------------------------------------------------------------------
(* detectPII and what POST does with its outcome *)

\* const CHUNK_SIZE = 5000
CHUNK_SIZE == 5000

\* largest number of chunks a document text is split into
MaxChunks == 3

\* text.length: empty, short, exactly one request, and one character more
\* or a whole number of chunks beyond
PiiTextLengths ==
    {0, 1, CHUNK_SIZE}
        \cup UNION {{(k - 1) * CHUNK_SIZE + 1, k * CHUNK_SIZE} : k \in 2..MaxChunks}

\* the entities a request can answer with, offsets counted within its text
PiiFound ==
    <<[text |-> <<"M", "a", "x">>, category |-> "Person", offset |-> 0, length |-> 3],
      [text |-> <<"B", "e", "r", "l", "i", "n">>, category |-> "Address", offset |-> 10, length |-> 6]>>

\* what a request can answer for a text of the given length: an error, a
\* response without documents, or a document with entities inside the text
PiiAnswers(length) ==
    {[kind |-> "error", entities |-> <<>>], [kind |-> "no-documents", entities |-> <<>>]}
        \cup {[kind |-> "entities", entities |-> SubSeq(PiiFound, 1, n)] :
                 n \in {m \in 0..Len(PiiFound) :
                           \A i \in 1..m : PiiFound[i].offset + PiiFound[i].length <= length}}

\* text.substring(offset, offset + CHUNK_SIZE).length
chunkLength(length, offset) == min2(CHUNK_SIZE, length - offset)

\* chunkEntities.map(entity => ({...entity, offset: entity.offset + offset}))
adjustedEntities(chunkEntities, offset) ==
    [i \in DOMAIN chunkEntities |->
        [text |-> chunkEntities[i].text, category |-> chunkEntities[i].category,
         offset |-> chunkEntities[i].offset + offset, length |-> chunkEntities[i].length]]

InitPII ==
    /\ piiTextLength \in PiiTextLengths
    /\ chunkOffset = 0
    /\ allEntities = <<>>
    /\ piiRequests = <<>>
    /\ piiEntities = <<>>
    /\ piiPc = "detecting"
    /\ response = [status |-> 0, azureEntities |-> <<>>]
    /\ MergeIdle
    /\ MapIdle
    /\ SigIdle
    /\ FilterIdle
    /\ OCRIdle
    /\ PostIdle
    /\ PatternIdle
    /\ PageIdle
    /\ LogIdle

\* the text fits one request: its entities are returned, an error is thrown on
SingleRequest ==
    /\ piiPc = "detecting"
    /\ piiTextLength <= CHUNK_SIZE
    /\ \E answer \in PiiAnswers(piiTextLength) :
           /\ piiRequests' = Append(piiRequests, [offset |-> 0, answer |-> answer])
           /\ IF answer.kind = "error"
              THEN piiPc' = "thrown" /\ piiEntities' = piiEntities
              ELSE piiPc' = "returned" /\ piiEntities' = answer.entities
    /\ UNCHANGED <<piiTextLength, chunkOffset, allEntities, response>>
    /\ UNCHANGED mergeVars
    /\ UNCHANGED mapVars
    /\ UNCHANGED sigVars
    /\ UNCHANGED filterVars
    /\ UNCHANGED ocrVars
    /\ UNCHANGED postVars
    /\ UNCHANGED patternVars
    /\ UNCHANGED pageVars
    /\ UNCHANGED logVars

\* one pass of the chunk loop: the entities of the chunk are pushed with
\* their offsets adjusted, an error is logged and the loop goes on
ChunkRequest ==
    /\ piiPc = "detecting"
    /\ piiTextLength > CHUNK_SIZE
    /\ chunkOffset < piiTextLength
    /\ \E answer \in PiiAnswers(chunkLength(piiTextLength, chunkOffset)) :
           /\ piiRequests' = Append(piiRequests, [offset |-> chunkOffset, answer |-> answer])
           /\ allEntities' = allEntities \o adjustedEntities(answer.entities, chunkOffset)
    /\ chunkOffset' = chunkOffset + CHUNK_SIZE
    /\ UNCHANGED <<piiTextLength, piiEntities, piiPc, response>>
    /\ UNCHANGED mergeVars
    /\ UNCHANGED mapVars
    /\ UNCHANGED sigVars
    /\ UNCHANGED filterVars
    /\ UNCHANGED ocrVars
    /\ UNCHANGED postVars
    /\ UNCHANGED patternVars
    /\ UNCHANGED pageVars
    /\ UNCHANGED logVars

\* the chunk loop is over: return allEntities
ReturnAllEntities ==
    /\ piiPc = "detecting"
    /\ piiTextLength > CHUNK_SIZE
    /\ chunkOffset >= piiTextLength
    /\ piiEntities' = allEntities
    /\ piiPc' = "returned"
    /\ UNCHANGED <<piiTextLength, chunkOffset, allEntities, piiRequests, response>>
    /\ UNCHANGED mergeVars
    /\ UNCHANGED mapVars
    /\ UNCHANGED sigVars
    /\ UNCHANGED filterVars
    /\ UNCHANGED ocrVars
    /\ UNCHANGED postVars
    /\ UNCHANGED patternVars
    /\ UNCHANGED pageVars
    /\ UNCHANGED logVars

\* POST goes on with the list detectPII returned (merge, filter, map,
\* redact) and answers with the result
ContinuePipeline ==
    /\ piiPc = "returned"
    /\ response' = [status |-> 200, azureEntities |-> piiEntities]
    /\ piiPc' = "responded"
    /\ UNCHANGED <<piiTextLength, chunkOffset, allEntities, piiRequests, piiEntities>>
    /\ UNCHANGED mergeVars
    /\ UNCHANGED mapVars
    /\ UNCHANGED sigVars
    /\ UNCHANGED filterVars
    /\ UNCHANGED ocrVars
    /\ UNCHANGED postVars
    /\ UNCHANGED patternVars
    /\ UNCHANGED pageVars
    /\ UNCHANGED logVars

\* the error detectPII threw reaches the catch of POST: status 500
AbortRequest ==
    /\ piiPc = "thrown"
    /\ response' = [status |-> 500, azureEntities |-> <<>>]
    /\ piiPc' = "responded"
    /\ UNCHANGED <<piiTextLength, chunkOffset, allEntities, piiRequests, piiEntities>>
    /\ UNCHANGED mergeVars
    /\ UNCHANGED mapVars
    /\ UNCHANGED sigVars
    /\ UNCHANGED filterVars
    /\ UNCHANGED ocrVars
    /\ UNCHANGED postVars
    /\ UNCHANGED patternVars
    /\ UNCHANGED pageVars
    /\ UNCHANGED logVars

NextPII ==
    \/ SingleRequest
    \/ ChunkRequest
    \/ ReturnAllEntities
    \/ ContinuePipeline
    \/ AbortRequest

SpecPII == InitPII /\ [][NextPII]_vars

-----------------------------------------------------------------------------
(* detectPII: vocabulary of the properties *)

\* the entities of the requests that succeeded, at their place in the text
RECURSIVE succeededFrom(_)
succeededFrom(i) ==
    IF i > Len(piiRequests) THEN <<>>
    ELSE adjustedEntities(piiRequests[i].answer.entities, piiRequests[i].offset)
         \o succeededFrom(i + 1)

SucceededEntities == succeededFrom(1)

SomeRequestFailed == \E i \in DOMAIN piiRequests : piiRequests[i].answer.kind = "error"

\* C20: when a detection request has failed, the request is still answered
\* without an error and with the entities of the requests that succeeded,
\* whatever the length of the text
C20_RequestFailureNeverAborts ==
    piiPc = "responded" /\ SomeRequestFailed =>
        /\ response.status = 200
        /\ response.azureEntities = SucceededEntities

-----------------------------------------------------------------------------
(* extractTextWithAzureDocIntel: submit, then poll until the status is
   neither running nor notStarted *)

\* most status requests counted (the loop itself has no limit)
MaxPolls == 3

\* the documents sent; the analyzeResult of a document is named after it
OcrDocuments == {"letter", "contract", "scan", "invoice"}

analyzeResultOf(pdf) == <<"analyzeResult", pdf>>

\* what the submit request can answer: an error, 200 with the result, 202
\* with or without an Operation-Location header
SubmitAnswers == {"error", "200", "202", "202-no-location"}

\* what a status request can answer: an error, or a status
PollAnswers == {"error", "notStarted", "running", "failed", "succeeded", "canceled"}

InitOCR ==
    /\ pdfBuffer \in OcrDocuments
    /\ ocrStatus = "running"
    /\ ocrPolls = 0
    /\ ocrOutcome = [kind |-> "pending", value |-> "none"]
    /\ ocrPc = "submit"
    /\ MergeIdle
    /\ MapIdle
    /\ SigIdle
    /\ FilterIdle
    /\ PIIIdle
    /\ PostIdle
    /\ PatternIdle
    /\ PageIdle
    /\ LogIdle

\* axios.post(url, pdfBuffer): 202 starts the polling loop, 200 returns the
\* result, an error or a missing header is thrown on as "OCR failed"
Submit ==
    /\ ocrPc = "submit"
    /\ \E answer \in SubmitAnswers :
           CASE answer = "202" ->
                    /\ ocrPc' = "waiting"
                    /\ ocrOutcome' = ocrOutcome
             [] answer = "200" ->
                    /\ ocrPc' = "returned"
                    /\ ocrOutcome' = [kind |-> "result", value |-> analyzeResultOf(pdfBuffer)]
             [] OTHER ->
                    /\ ocrPc' = "thrown"
                    /\ ocrOutcome' = [kind |-> "error", value |-> answer]
    /\ UNCHANGED <<pdfBuffer, ocrStatus, ocrPolls>>
    /\ UNCHANGED mergeVars
    /\ UNCHANGED mapVars
    /\ UNCHANGED sigVars
    /\ UNCHANGED filterVars
    /\ UNCHANGED piiVars
    /\ UNCHANGED postVars
    /\ UNCHANGED patternVars
    /\ UNCHANGED pageVars
    /\ UNCHANGED logVars

\* the loop test holds and the wait of one second is over
Wait ==
    /\ ocrPc = "waiting"
    /\ ocrStatus \in {"running", "notStarted"}
    /\ ocrPc' = "polling"
    /\ UNCHANGED <<pdfBuffer, ocrStatus, ocrPolls, ocrOutcome>>
    /\ UNCHANGED mergeVars
    /\ UNCHANGED mapVars
    /\ UNCHANGED sigVars
    /\ UNCHANGED filterVars
    /\ UNCHANGED piiVars
    /\ UNCHANGED postVars
    /\ UNCHANGED patternVars
    /\ UNCHANGED pageVars
    /\ UNCHANGED logVars

\* axios.get(operationLocation): the status is read; failed and an error are
\* thrown on, any other status goes back to the loop test
Poll ==
    /\ ocrPc = "polling"
    /\ ocrPolls' = min2(ocrPolls + 1, MaxPolls)
    /\ \E answer \in PollAnswers :
           IF answer \in {"error", "failed"}
           THEN /\ ocrPc' = "thrown"
                /\ ocrOutcome' = [kind |-> "error", value |-> answer]
                /\ ocrStatus' = IF answer = "failed" THEN "failed" ELSE ocrStatus
           ELSE /\ ocrPc' = "waiting"
                /\ ocrOutcome' = ocrOutcome
                /\ ocrStatus' = answer
    /\ UNCHANGED pdfBuffer
    /\ UNCHANGED mergeVars
    /\ UNCHANGED mapVars
    /\ UNCHANGED sigVars
    /\ UNCHANGED filterVars
    /\ UNCHANGED piiVars
    /\ UNCHANGED postVars
    /\ UNCHANGED patternVars
    /\ UNCHANGED pageVars
    /\ UNCHANGED logVars

\* the loop test fails: return resultResponse?.data.analyzeResult, which a
\* response of a status other than succeeded does not carry
ReturnResult ==
    /\ ocrPc = "waiting"
    /\ ocrStatus \notin {"running", "notStarted"}
    /\ ocrPc' = "returned"
    /\ ocrOutcome' = [kind |-> "result",
                      value |-> IF ocrStatus = "succeeded" THEN analyzeResultOf(pdfBuffer)
                                ELSE "undefined"]
    /\ UNCHANGED <<pdfBuffer, ocrStatus, ocrPolls>>
    /\ UNCHANGED mergeVars
    /\ UNCHANGED mapVars
    /\ UNCHANGED sigVars
    /\ UNCHANGED filterVars
    /\ UNCHANGED piiVars
    /\ UNCHANGED postVars
    /\ UNCHANGED patternVars
    /\ UNCHANGED pageVars
    /\ UNCHANGED logVars

NextOCR ==
    \/ Submit
    \/ Wait
    \/ Poll
    \/ ReturnResult

\* every request is answered and every timer fires: each step that can be
\* taken is taken in the end, whatever the engine answers
SpecOCR ==
    /\ InitOCR
    /\ [][NextOCR]_vars
    /\ WF_vars(Submit)
    /\ WF_vars(Wait)
    /\ WF_vars(Poll)
    /\ WF_vars(ReturnResult)

\* C21: after the submit every run of the extraction ends, in a result or in
\* an error, even when every poll reports running or notStarted
C21_ExtractionTerminates == <>(ocrPc \in {"returned", "thrown"})

\* ---------------------------------------------------------------------------
\* POST: the per-file loop and the answer (route.ts 1608-2023)
\*
\* A file is known by its name.  The entities of a file are counted, not
\* spelled out: how many the filter keeps and how many regions the mapping
\* returns is all the loop's control flow and the answer depend on.  A region
\* is a record naming its category, the detector that produced it, its file
\* and a number; rendered bytes name the file and the region list they were
\* rendered for, so that two byte strings are equal only if both are.
\* ---------------------------------------------------------------------------

MaxFiles == 2
MaxKept == 1

FileNames == <<"a.pdf", "b.pdf", "c.pdf", "d.pdf">>

\* the requests: the first n file names, n from 1 (an empty request is
\* answered 400 before the loop, route.ts 1557)
Uploads == {SubSeq(FileNames, 1, n) : n \in 1..MaxFiles}

StageOrder ==
    <<"extract text", "detect language", "collect entities", "merge",
      "filter", "map to regions", "detect signatures", "assemble and render">>

region(category, source, file, id) ==
    [category |-> category, source |-> source, file |-> file, id |-> id]

regionsOf(category, source, file, n) ==
    [k \in 1..n |-> region(category, source, file, k)]

\* file.buffer.toString('base64') of the uploaded file
originalBase64(file) == <<"original", file>>

\* redactPdfWithPyMuPDF(file.buffer, redactions, ...) as base64
redactedBase64Of(file, regions) == <<"redacted", file, regions>>

FreshFile ==
    [stages |-> <<>>, found |-> 0, kept |-> 0,
     piiRedactions |-> <<>>, signatureRedactions |-> <<>>]

InitPost ==
    /\ uploadedFiles \in Uploads
    /\ fileIndex = 1
    /\ current = FreshFile
    /\ fileResults = <<>>
    /\ totalEntities = 0
    /\ postFailure = "none"
    /\ postResponse = [status |-> 0]
    /\ postPc = "extract text"
    /\ MergeIdle
    /\ MapIdle
    /\ SigIdle
    /\ FilterIdle
    /\ PIIIdle
    /\ OCRIdle
    /\ PatternIdle
    /\ PageIdle
    /\ LogIdle

stageDone(stage) == [current EXCEPT !.stages = Append(@, stage)]

\* a step of the loop throws: control leaves the loop for POST's catch
throwsFrom(step) ==
    /\ postFailure' = step
    /\ postPc' = "thrown"
    /\ UNCHANGED <<current, totalEntities>>

PostFrame ==
    /\ UNCHANGED <<uploadedFiles, fileIndex, fileResults, postResponse>>
    /\ UNCHANGED mergeVars
    /\ UNCHANGED mapVars
    /\ UNCHANGED sigVars
    /\ UNCHANGED filterVars
    /\ UNCHANGED piiVars
    /\ UNCHANGED ocrVars
    /\ UNCHANGED patternVars
    /\ UNCHANGED pageVars
    /\ UNCHANGED logVars

\* Step 1 (1613-1620): extractTextWithAzureDocIntel, not guarded by the loop
ExtractText ==
    /\ postPc = "extract text"
    /\ \E ok \in BOOLEAN :
        IF ok
        THEN /\ current' = stageDone("extract text")
             /\ postPc' = "detect language"
             /\ UNCHANGED <<totalEntities, postFailure>>
        ELSE throwsFrom("extractTextWithAzureDocIntel")
    /\ PostFrame

\* Step 2 (1624): detectLanguage answers 'en' when its request fails (313-346)
DetectLanguage ==
    /\ postPc = "detect language"
    /\ current' = stageDone("detect language")
    /\ postPc' = "collect entities"
    /\ UNCHANGED <<totalEntities, postFailure>>
    /\ PostFrame

\* Steps 3 and 4 (1640-1650): detectPII, which may throw, then detectCustomPatterns
CollectEntities ==
    /\ postPc = "collect entities"
    /\ \E ok \in BOOLEAN, n \in 0..MaxKept :
        IF ok
        THEN /\ current' = [stageDone("collect entities") EXCEPT !.found = n]
             /\ postPc' = "merge"
             /\ UNCHANGED <<totalEntities, postFailure>>
        ELSE /\ n = 0
             /\ throwsFrom("detectPII")
    /\ PostFrame

\* Step 5 (1653): mergeEntities
MergeStage ==
    /\ postPc = "merge"
    /\ current' = stageDone("merge")
    /\ postPc' = "filter"
    /\ UNCHANGED <<totalEntities, postFailure>>
    /\ PostFrame

\* Step 6 (1691-1881): the filter keeps some of the entities; the kept ones are counted
FilterStage ==
    /\ postPc = "filter"
    /\ \E n \in 0..current.found :
        /\ current' = [stageDone("filter") EXCEPT !.kept = n]
        /\ totalEntities' = totalEntities + n
    /\ postPc' = "map to regions"
    /\ UNCHANGED postFailure
    /\ PostFrame

\* Step 7 (1884-1886): the mapping is called only for a non-empty list, and
\* returns a region for each entity that overlaps a word
MapStage ==
    /\ postPc = "map to regions"
    /\ \E n \in 0..current.kept :
        current' = [stageDone("map to regions") EXCEPT
                       !.piiRedactions =
                           IF current.kept > 0
                           THEN regionsOf("Person", "entity", uploadedFiles[fileIndex], n)
                           ELSE <<>>]
    /\ postPc' = "detect signatures"
    /\ UNCHANGED <<totalEntities, postFailure>>
    /\ PostFrame

\* [...signatureRedactions, ...yoloSignatures] (1899)
withYolo(styleSignatures, yoloSignatures) ==
    IF Len(yoloSignatures) > 0
    THEN styleSignatures \o yoloSignatures
    ELSE styleSignatures

\* Steps 8 and 8b (1889-1906): detectSignaturesFromStyles, then
\* detectSignaturesWithYOLO, which answers [] when its request fails (1069)
DetectSignaturesStage ==
    /\ postPc = "detect signatures"
    /\ \E fromStyles \in 0..1, fromYolo \in 0..1 :
        current' = [stageDone("detect signatures") EXCEPT
                       !.signatureRedactions =
                           withYolo(regionsOf("Signature", "styles", uploadedFiles[fileIndex], fromStyles),
                                    regionsOf("Signature", "yolo", uploadedFiles[fileIndex], fromYolo))]
    /\ postPc' = "assemble and render"
    /\ UNCHANGED <<totalEntities, postFailure>>
    /\ PostFrame

\* const redactions = [...piiRedactions, ...signatureRedactions] (1912)
signaturesFirst(piiRedactions, signatureRedactions) ==
    signatureRedactions \o piiRedactions

assemble(piiRedactions, signatureRedactions) ==
    piiRedactions \o signatureRedactions

\* 1912-1935: assemble, render (redactPdfWithPyMuPDF rethrows, 1021), push
\* the result, and go on with the next file or leave the loop
AssembleAndRender ==
    /\ postPc = "assemble and render"
    /\ \E ok \in BOOLEAN :
        IF ok
        THEN LET file == uploadedFiles[fileIndex]
                 regions == assemble(current.piiRedactions, current.signatureRedactions)
             IN  /\ fileResults' = Append(fileResults,
                        [file |-> file,
                         redactions |-> regions,
                         redactedBase64 |-> redactedBase64Of(file, regions)])
                 /\ fileIndex' = fileIndex + 1
                 /\ current' = FreshFile
                 /\ postPc' = IF fileIndex < Len(uploadedFiles)
                              THEN "extract text"
                              ELSE "respond"
                 /\ UNCHANGED <<totalEntities, postFailure>>
        ELSE /\ throwsFrom("redactPdfWithPyMuPDF")
             /\ UNCHANGED <<fileIndex, fileResults>>
    /\ UNCHANGED <<uploadedFiles, postResponse>>
    /\ UNCHANGED mergeVars
    /\ UNCHANGED mapVars
    /\ UNCHANGED sigVars
    /\ UNCHANGED filterVars
    /\ UNCHANGED piiVars
    /\ UNCHANGED ocrVars
    /\ UNCHANGED patternVars
    /\ UNCHANGED pageVars
    /\ UNCHANGED logVars

RECURSIVE sumRedactions(_)
sumRedactions(results) ==
    IF results = <<>>
    THEN 0
    ELSE Len(Head(results).redactions) + sumRedactions(Tail(results))

\* 1937-1959: one file and no entity kept: the uploaded file itself is answered
originalResponse ==
    [status |-> 200,
     files |-> <<[filename |-> uploadedFiles[1],
                  redactedBase64 |-> originalBase64(uploadedFiles[1]),
                  redactionsCount |-> 0]>>,
     combinedBase64 |-> <<originalBase64(uploadedFiles[1])>>,
     totalEntities |-> 0,
     totalRedactions |-> 0,
     filesMerged |-> Len(uploadedFiles)]

\* 1960-2009: the redacted files, their merge and the totals
redactedResponse ==
    [status |-> 200,
     files |-> [k \in 1..Len(fileResults) |->
                   [filename |-> fileResults[k].file,
                    redactedBase64 |-> fileResults[k].redactedBase64,
                    redactionsCount |-> Len(fileResults[k].redactions)]],
     combinedBase64 |-> [k \in 1..Len(fileResults) |-> fileResults[k].redactedBase64],
     totalEntities |-> totalEntities,
     totalRedactions |-> sumRedactions(fileResults),
     filesMerged |-> Len(uploadedFiles)]

Respond ==
    /\ postPc = "respond"
    /\ postResponse' = IF Len(uploadedFiles) = 1 /\ totalEntities = 0
                       THEN originalResponse
                       ELSE redactedResponse
    /\ postPc' = "responded"
    /\ UNCHANGED <<uploadedFiles, fileIndex, current, fileResults, totalEntities, postFailure>>
    /\ UNCHANGED mergeVars
    /\ UNCHANGED mapVars
    /\ UNCHANGED sigVars
    /\ UNCHANGED filterVars
    /\ UNCHANGED piiVars
    /\ UNCHANGED ocrVars
    /\ UNCHANGED patternVars
    /\ UNCHANGED pageVars
    /\ UNCHANGED logVars

\* 2012-2023: the catch of POST answers the error alone
RespondError ==
    /\ postPc = "thrown"
    /\ postResponse' = [status |-> 500, error |-> postFailure]
    /\ postPc' = "responded"
    /\ UNCHANGED <<uploadedFiles, fileIndex, current, fileResults, totalEntities, postFailure>>
    /\ UNCHANGED mergeVars
    /\ UNCHANGED mapVars
    /\ UNCHANGED sigVars
    /\ UNCHANGED filterVars
    /\ UNCHANGED piiVars
    /\ UNCHANGED ocrVars
    /\ UNCHANGED patternVars
    /\ UNCHANGED pageVars
    /\ UNCHANGED logVars

NextPost ==
    \/ ExtractText
    \/ DetectLanguage
    \/ CollectEntities
    \/ MergeStage
    \/ FilterStage
    \/ MapStage
    \/ DetectSignaturesStage
    \/ AssembleAndRender
    \/ Respond
    \/ RespondError

SpecPost == InitPost /\ [][NextPost]_vars

\* ---------------------------------------------------------------------------
\* Claims about POST
\* ---------------------------------------------------------------------------

Responded == postPc = "responded"

signatureRegions(regions) == SelectSeq(regions, LAMBDA r : r.category = "Signature")

piiRegions(regions) == SelectSeq(regions, LAMBDA r : r.category # "Signature")

\* the answer carries the result of the k-th processed file
Returned(k) ==
    /\ postResponse.status = 200
    /\ k \in DOMAIN postResponse.files
    /\ postResponse.files[k].filename = fileResults[k].file
    /\ postResponse.files[k].redactedBase64 = fileResults[k].redactedBase64

\* C22: when the OCR of one document of a batch fails, only that document's
\* result is lost: the answer still carries the results of the documents
\* that were processed before it.
C22_OcrFailureKeepsOtherResults ==
    (Responded /\ postFailure = "extractTextWithAzureDocIntel")
        => \A k \in DOMAIN fileResults : Returned(k)

isPrefix(s, t) == Len(s) <= Len(t) /\ s = SubSeq(t, 1, Len(s))

\* C23: for every document the stages run in the order extract text, detect
\* language, collect entities, merge, filter, map to regions, detect
\* signatures, assemble and render, none twice and none out of turn; and the
\* regions handed to the renderer are the mapped PII regions followed by the
\* signature regions.
C23_StagesInFixedOrder ==
    /\ isPrefix(current.stages, StageOrder)
    /\ postPc \in {StageOrder[k] : k \in DOMAIN StageOrder}
           => postPc = StageOrder[Len(current.stages) + 1]
    /\ \A k \in DOMAIN fileResults :
           /\ fileResults[k].redactions =
                  piiRegions(fileResults[k].redactions) \o signatureRegions(fileResults[k].redactions)
           /\ fileResults[k].redactedBase64 =
                  redactedBase64Of(fileResults[k].file, fileResults[k].redactions)

\* a document went through every stage with both a PII region and a signature region
C23_Witness ==
    /\ Responded
    /\ \E k \in DOMAIN fileResults :
           /\ piiRegions(fileResults[k].redactions) # <<>>
           /\ signatureRegions(fileResults[k].redactions) # <<>>

\* C24: whenever a signature region was detected in a document, the bytes
\* answered for it are the renderer's output for a region list holding that
\* region, and the answered redaction count includes it; also for a request
\* of one file in which no PII entity survives filtering.
C24_SignaturesAlwaysRedacted ==
    (Responded /\ postResponse.status = 200)
        => \A k \in DOMAIN fileResults :
               signatureRegions(fileResults[k].redactions) # <<>>
                   => /\ postResponse.files[k].redactedBase64 =
                             redactedBase64Of(fileResults[k].file, fileResults[k].redactions)
                      /\ postResponse.files[k].redactionsCount
                             >= Len(signatureRegions(fileResults[k].redactions))

-----------------------------------------------------------------------------
(* Claims about the fallback pass of detectSignaturesFromStyles *)

\* the word's lowercased content contains a whole label keyword
HoldsKeyword(word) ==
    \E l \in DOMAIN signatureLabels : includes(toLowerCase(word.content), signatureLabels[l])

\* the word's lowercased content contains the first five characters of a
\* keyword of more than four characters
HoldsKeywordHead(word) ==
    \E l \in DOMAIN signatureLabels :
        /\ Len(signatureLabels[l]) > 4
        /\ includes(toLowerCase(word.content), SubSeq(signatureLabels[l], 1, 5))

\* the word's vertical centre lies in the bottom 50% of its page
InBottomHalf(page, word) == centreY2(word) >= page.height

\* nearby lies less than 1.0 units below the word and less than 3.0 units
\* beside it, and reads like a signature of a size worth a region
CandidateOf(page, pageIdx, word, nearby) ==
    /\ nearby # word
    /\ centreY2(nearby) > centreY2(word)
    /\ centreY2(nearby) - centreY2(word) < 200
    /\ abs(centreX2(nearby) - centreX2(word)) < 600
    /\ ~isCommonWord(nearby.content)
    /\ hasLetters(nearby.content)
    /\ Len(nearby.content) >= 3
    /\ fallbackRegion(page, pageIdx, nearby).width > FALLBACK_MIN_WIDTH
    /\ fallbackRegion(page, pageIdx, nearby).height > FALLBACK_MIN_HEIGHT

\* the pairs of a page index and a word of that page
PageWords == UNION {{<<p, w>> : w \in DOMAIN sigPages[p].words} : p \in DOMAIN sigPages}

\* the fallback pass took the word for a label: it pushed the region of a
\* candidate of the word
TakenForLabel(pw) ==
    LET page == sigPages[pw[1]]
    IN  \E n \in DOMAIN page.words, k \in DOMAIN signatures :
            /\ CandidateOf(page, pw[1] - 1, page.words[pw[2]], page.words[n])
            /\ signatures[k] = fallbackRegion(page, pw[1] - 1, page.words[n])

FallbackRegions == SelectSeq(signatures, IsFallbackRegion)

\* C25 as stated: in the fallback pass a word is a signature label only if
\* its lowercased content contains a label keyword and its vertical centre
\* lies in the bottom 50% of the page; a word holding only the first five
\* characters of a keyword ("unter", "datum") is not taken for a label.
C25_LabelOnlyByWholeKeyword ==
    Detected =>
        \A pw \in PageWords :
            TakenForLabel(pw)
                => /\ HoldsKeyword(sigPages[pw[1]].words[pw[2]])
                   /\ InBottomHalf(sigPages[pw[1]], sigPages[pw[1]].words[pw[2]])

\* C25 amended: in the fallback pass a word of more than three characters is
\* a signature label exactly if its lowercased content contains a label
\* keyword or the first five characters of a keyword longer than four
\* characters, and its vertical centre lies in the bottom 50% of the page:
\* only such a word is taken for a label, and when no primary-pass region
\* was returned every candidate of such a word gets a region, unless a
\* region was pushed at its place before.
C25_LabelByKeywordOrItsHead ==
    Detected =>
        \A pw \in PageWords :
            LET page == sigPages[pw[1]]
                word == page.words[pw[2]]
                label == /\ Len(word.content) > 3
                         /\ InBottomHalf(page, word)
                         /\ HoldsKeyword(word) \/ HoldsKeywordHead(word)
            IN  /\ TakenForLabel(pw) => label
                /\ (PrimaryRegions = <<>> /\ label)
                       => \A n \in DOMAIN page.words :
                              CandidateOf(page, pw[1] - 1, word, page.words[n])
                                  => \/ \E k \in DOMAIN signatures :
                                            signatures[k] = fallbackRegion(page, pw[1] - 1, page.words[n])
                                     \/ alreadyDetected(signatures, pw[1] - 1, page.words[n])

\* "Unter" in the bottom half of the page was taken for a label, and the
\* word below it became a fallback region
C25_Witness ==
    /\ Detected
    /\ \E pw \in PageWords :
           /\ sigPages[pw[1]].words[pw[2]].content = OtherLabels.prefix
           /\ ~HoldsKeyword(sigPages[pw[1]].words[pw[2]])
           /\ TakenForLabel(pw)
    /\ Len(FallbackRegions) > 0

-----------------------------------------------------------------------------
(* C27: no entity is lost by the mapping *)

\* the entity at index e overlaps the span of some word of the document
OverlapsSomeWord(e) == \E t \in MatchedPairs : t[1] = e

\* some returned region carries the text and category of the entity at index e
HasRegion(e) ==
    \E k \in DOMAIN redactions :
        /\ redactions[k].text = entities[e].text
        /\ redactions[k].category = entities[e].category

\* C27: every entity handed to convertEntitiesToRedactionCoordinates yields
\* at least one redaction region: an entity whose span overlaps no OCR word
\* is not silently dropped from the returned regions (the call returns its
\* list and reports no error, while the entity stays counted).
C27_EveryEntityYieldsRegion ==
    Mapped => \A e \in DOMAIN entities : HasRegion(e)

-----------------------------------------------------------------------------
(* C28: a primary-pass region and the page it names *)

\* the words under the span that lie on the page with index pageIdx
WordsOnPage(si, pageIdx) == SelectSeq(SpanWords(si), LAMBDA mw : mw.pageIndex = pageIdx)

\* the corners of the words of a list
CornersX(mws) == {mws[i].word.polygon[k] : i \in DOMAIN mws, k \in {1, 3, 5, 7}}
CornersY(mws) == {mws[i].word.polygon[k] : i \in DOMAIN mws, k \in {2, 4, 6, 8}}

\* r is the padded box around the words mws, in the output unit of the page
\* with index r.pageIndex
BoxOfWords(r, mws) ==
    LET scale == Scale(sigPages[r.pageIndex + 1].unit)
    IN  /\ mws # <<>>
        /\ r.x = scale * max2(0, SetMin(CornersX(mws)) - 5)
        /\ r.y = scale * max2(0, SetMin(CornersY(mws)) - 5)
        /\ r.x + r.width = scale * (SetMax(CornersX(mws)) + 5)
        /\ r.y + r.height = scale * (SetMax(CornersY(mws)) + 5)

\* C28: every primary-pass signature region is built only from words of the
\* page named by its pageIndex and converted with that page's unit: also
\* when a handwritten span overlaps words on more than one page, the region
\* is the box of the span's words on its own page and unions no coordinates
\* of words from another page.
C28_RegionFromOwnPageOnly ==
    Detected =>
        \A k \in DOMAIN signatures :
            IsPrimaryRegion(signatures[k])
                => \E si \in HandwrittenSpans :
                       /\ RegionOfSpan(si, signatures[k])
                       /\ BoxOfWords(signatures[k], WordsOnPage(si, signatures[k].pageIndex))

-----------------------------------------------------------------------------
(* detectCustomPatterns: the contextual 'label: value' Occupation detector  *)
(* (route.ts 559-568).  Positions are 1-based here and 0-based in the       *)
(* entities, as in the source.                                              *)

\* (?:Beruf|Occupation|Job|Tätigkeit), matched without regard to case
jobLabels ==
    <<<<"b", "e", "r", "u", "f">>,
      <<"o", "c", "c", "u", "p", "a", "t", "i", "o", "n">>,
      <<"j", "o", "b">>,
      <<"t", "ä", "t", "i", "g", "k", "e", "i", "t">>>>

\* [:\s\n]
labelSeparators == {":"} \cup Whitespace

\* [A-Za-zäöüÄÖÜß0-9\s\-]
jobValueChars == Letters \cup Digits \cup Whitespace \cup {"-"}

\* (?:\n|,|\.|\||$) at position p: one of the four characters, or the end
\* of the text (the pattern has no m flag)
terminatorAt(text, p) == p = Len(text) + 1 \/ (p <= Len(text) /\ text[p] \in {"\n", ",", ".", "|"})

\* the matches of the pattern that start at position i: [sep, len] where sep
\* separators follow the label and the group holds the len characters after them
jobContextMatchesAt(text, i) ==
    UNION {
        LET after == i + Len(jobLabels[l])
        IN  {m \in [sep : 0..(Len(text) + 1 - after), len : 1..(Len(text) + 1 - after)] :
                /\ occursAt(toLowerCase(text), i, jobLabels[l])
                /\ after + m.sep + m.len - 1 <= Len(text)
                /\ \A k \in after..(after + m.sep - 1) : text[k] \in labelSeparators
                /\ \A k \in (after + m.sep)..(after + m.sep + m.len - 1) : text[k] \in jobValueChars
                /\ terminatorAt(text, after + m.sep + m.len)}
      : l \in DOMAIN jobLabels}

labelLengthAt(text, i) ==
    Len(jobLabels[CHOOSE l \in DOMAIN jobLabels : occursAt(toLowerCase(text), i, jobLabels[l])])

\* the match the engine reports at position i: the separators are taken
\* greedily, the group lazily
jobContextMatchAt(text, i) ==
    LET all == jobContextMatchesAt(text, i)
        sep == SetMax({m.sep : m \in all})
        len == SetMin({m.len : m \in {n \in all : n.sep = sep}})
        after == i + labelLengthAt(text, i)
        groupStart == after + sep
        groupEnd == groupStart + len - 1
        \* the terminator character is part of the match, the end of the text is not
        matchEnd == IF groupEnd + 1 <= Len(text) THEN groupEnd + 1 ELSE groupEnd
    IN  [index |-> i - 1,
         whole |-> SubSeq(text, i, matchEnd),
         group |-> SubSeq(text, groupStart, groupEnd),
         lastIndex |-> matchEnd]

\* String.prototype.indexOf for a substring that occurs
indexOf(s, sub) == (CHOOSE i \in 1..(Len(s) + 1) : occursAt(s, i, sub) /\ \A j \in 1..(i - 1) : ~occursAt(s, j, sub)) - 1

\* 561-567: the entity pushed for a match
jobContextEntity(match) ==
    [text |-> trim(match.group),
     category |-> "Occupation",
     offset |-> match.index + indexOf(match.whole, match.group),
     length |-> Len(trim(match.group))]

\* while ((match = jobContextPattern.exec(text)) !== null): the matches from
\* lastIndex on, leftmost first
RECURSIVE jobContextEntities(_, _)
jobContextEntities(text, lastIndex) ==
    LET starts == {i \in (lastIndex + 1)..Len(text) : jobContextMatchesAt(text, i) # {}}
    IN  IF starts = {} THEN <<>>
        ELSE LET match == jobContextMatchAt(text, SetMin(starts))
             IN  <<jobContextEntity(match)>> \o jobContextEntities(text, match.lastIndex)

\* the texts of the model: one or two labels, each followed by a few
\* characters.  They hold no digit, no job title and no other keyword, so
\* that no other pattern of detectCustomPatterns matches in them.
MaxTail == 3

TailChars == {":", " ", "\n", "a", ","}

Tails == UNION {[1..n -> TailChars] : n \in 0..MaxTail}

PatternTexts ==
    {<<"J", "o", "b">> \o tail : tail \in Tails}
        \cup {<<"J", "o", "b", ":", " ", "a", "\n", "B", "e", "r", "u", "f">> \o tail : tail \in Tails}

InitPattern ==
    /\ patternText \in PatternTexts
    /\ customFound = <<>>
    /\ patternPc = "input"
    /\ MergeIdle
    /\ MapIdle
    /\ SigIdle
    /\ FilterIdle
    /\ PIIIdle
    /\ OCRIdle
    /\ PostIdle
    /\ PageIdle
    /\ LogIdle

\* detectCustomPatterns(text), 531-817
detectCustomPatterns(text) == jobContextEntities(text, 0)

DetectCustomPatterns ==
    /\ patternPc = "input"
    /\ customFound' = detectCustomPatterns(patternText)
    /\ patternPc' = "scanned"
    /\ UNCHANGED patternText
    /\ UNCHANGED mergeVars
    /\ UNCHANGED mapVars
    /\ UNCHANGED sigVars
    /\ UNCHANGED filterVars
    /\ UNCHANGED piiVars
    /\ UNCHANGED ocrVars
    /\ UNCHANGED postVars
    /\ UNCHANGED pageVars
    /\ UNCHANGED logVars

NextPattern == DetectCustomPatterns

SpecPattern == InitPattern /\ [][NextPattern]_vars

Scanned == patternPc = "scanned"

\* C26: every entity emitted by detectCustomPatterns has offset >= 0,
\* length > 0 and offset + length <= the length of the text; also an entity
\* of the contextual 'label: value' Occupation detector whose label is
\* followed only by whitespace before a terminator.
C26_EntitiesWithinText ==
    Scanned =>
        \A k \in DOMAIN customFound :
            /\ customFound[k].offset >= 0
            /\ customFound[k].length > 0
            /\ customFound[k].offset + customFound[k].length <= Len(patternText)

-----------------------------------------------------------------------------
(* The upload page (src/unnamed/part_001) and its file list                *)
(* (src/unnamed/part_000).  A file is its name and its MIME type; indices  *)
(* are 0-based as in the source.  The model covers the page while no       *)
(* upload has succeeded: after a success the zone takes neither clicks nor *)
(* drops (part_001 196-200) until handleReset.                             *)

\* files.length + validFiles.length > 10
MAX_FILES == 10

\* largest number of files of one selection or drop
MaxSelection == 2

PdfFile(name) == [name |-> name, type |-> "application/pdf"]

FilePool ==
    {PdfFile("a.pdf"), PdfFile("b.pdf"), [name |-> "x.png", type |-> "image/png"]}

\* what the file dialog or a drop hands over
Selections == UNION {[1..n -> FilePool] : n \in 0..MaxSelection}

OnlyPdfMessage == "Only PDF files are allowed."
MaximumMessage == "You can upload a maximum of 10 PDF files."

\* selectedFiles.filter(f => f.type === "application/pdf")
validFilesOf(selected) == SelectSeq(selected, LAMBDA f : f.type = "application/pdf")

NoDrag == [dragging |-> FALSE, index |-> 0]

InitPage ==
    /\ files = <<>>
    /\ error = "null"
    /\ draggedIndex = NoDrag
    /\ MergeIdle
    /\ MapIdle
    /\ SigIdle
    /\ FilterIdle
    /\ PIIIdle
    /\ OCRIdle
    /\ PostIdle
    /\ PatternIdle
    /\ LogIdle

PageFrame ==
    /\ UNCHANGED mergeVars
    /\ UNCHANGED mapVars
    /\ UNCHANGED sigVars
    /\ UNCHANGED filterVars
    /\ UNCHANGED piiVars
    /\ UNCHANGED ocrVars
    /\ UNCHANGED postVars
    /\ UNCHANGED patternVars
    /\ UNCHANGED logVars

\* the limit test of a page that counts the incoming files only
addFilesCountingSelection(validFiles, selected) ==
    IF Len(validFiles) # Len(selected)
    THEN /\ error' = OnlyPdfMessage
         /\ UNCHANGED files
    ELSE IF Len(validFiles) > MAX_FILES
    THEN /\ error' = MaximumMessage
         /\ UNCHANGED files
    ELSE /\ files' = files \o validFiles
         /\ error' = "null"

\* the common part of handleFileChange (48-63) and handleDrop (83-97)
addFiles(validFiles, selected) ==
    IF Len(validFiles) # Len(selected)
    THEN /\ error' = OnlyPdfMessage
         /\ UNCHANGED files
    ELSE IF Len(files) + Len(validFiles) > MAX_FILES
    THEN /\ error' = MaximumMessage
         /\ UNCHANGED files
    ELSE /\ files' = files \o validFiles
         /\ error' = "null"

\* part_001 44-64; an empty selection returns at once
handleFileChangeOf(selectedFiles) ==
    /\ ~draggedIndex.dragging
    /\ IF Len(selectedFiles) = 0
       THEN UNCHANGED <<files, error>>
       ELSE addFiles(validFilesOf(selectedFiles), selectedFiles)
    /\ UNCHANGED draggedIndex
    /\ PageFrame

handleFileChange == \E selectedFiles \in Selections : handleFileChangeOf(selectedFiles)

\* part_001 76-98
handleDropOf(droppedFiles) ==
    /\ ~draggedIndex.dragging
    /\ addFiles(validFilesOf(droppedFiles), droppedFiles)
    /\ UNCHANGED draggedIndex
    /\ PageFrame

handleDrop == \E droppedFiles \in Selections : handleDropOf(droppedFiles)

\* part_001 153-161
handleReset ==
    /\ ~draggedIndex.dragging
    /\ files' = <<>>
    /\ error' = "null"
    /\ UNCHANGED draggedIndex
    /\ PageFrame

\* files.filter((_, i) => i !== index), part_001 167-169
handleRemoveFile ==
    /\ ~draggedIndex.dragging
    /\ \E index \in 0..(Len(files) - 1) :
           files' = SubSeq(files, 1, index) \o SubSeq(files, index + 2, Len(files))
    /\ UNCHANGED <<error, draggedIndex>>
    /\ PageFrame

\* part_000 18-27: an item of the list is picked up
handleDragStart ==
    /\ ~draggedIndex.dragging
    /\ \E index \in 0..(Len(files) - 1) : draggedIndex' = [dragging |-> TRUE, index |-> index]
    /\ UNCHANGED <<files, error>>
    /\ PageFrame

\* part_000 29-37: the drag ends without a drop on an item
handleDragEnd ==
    /\ draggedIndex.dragging
    /\ draggedIndex' = NoDrag
    /\ UNCHANGED <<files, error>>
    /\ PageFrame

\* newFiles.splice(draggedIndex, 1); newFiles.splice(dropIndex, 0, draggedFile)
moved(list, from, to) ==
    LET without == SubSeq(list, 1, from) \o SubSeq(list, from + 2, Len(list))
    IN  SubSeq(without, 1, to) \o <<list[from + 1]>> \o SubSeq(without, to + 1, Len(without))

\* part_000 62-79 with handleReorder of part_001 163-165: the dragged item is
\* dropped on the item at dropIndex
handleDropOnItem ==
    /\ draggedIndex.dragging
    /\ \E dropIndex \in 0..(Len(files) - 1) :
           files' = IF draggedIndex.index = dropIndex
                    THEN files
                    ELSE moved(files, draggedIndex.index, dropIndex)
    /\ draggedIndex' = NoDrag
    /\ UNCHANGED error
    /\ PageFrame

NextPage ==
    \/ handleFileChange
    \/ handleDrop
    \/ handleReset
    \/ handleRemoveFile
    \/ handleDragStart
    \/ handleDragEnd
    \/ handleDropOnItem

SpecPage == InitPage /\ [][NextPage]_vars

\* a selection or drop the page has to refuse
Refused(selected) ==
    \/ \E i \in DOMAIN selected : selected[i].type # "application/pdf"
    \/ Len(files) + Len(selected) > MAX_FILES

\* C29: after any sequence of file selections, drops, removals, reorderings
\* and resets the file list holds at most 10 files, all of type
\* application/pdf; and a selection or drop that contains a file that is
\* not a PDF, or that would make more than 10 files, leaves the list as it
\* is and sets an error message.
C29_AtMostTenPdfFiles ==
    /\ [](/\ Len(files) <= MAX_FILES
          /\ \A i \in DOMAIN files : files[i].type = "application/pdf")
    /\ [][(files' # files \/ error' \notin {OnlyPdfMessage, MaximumMessage})
              => \A selected \in Selections :
                     (Len(selected) > 0 /\ Refused(selected))
                         => ~(handleFileChangeOf(selected) \/ handleDropOf(selected))]_vars

\* the list is full and in an order no selection gave it, and the last
\* selection was refused for the limit
C29_Witness ==
    /\ Len(files) = MAX_FILES
    /\ error = MaximumMessage
    /\ files[1] = PdfFile("b.pdf")
    /\ files[MAX_FILES] = PdfFile("a.pdf")

-----------------------------------------------------------------------------
(* HTTPLogTransport (src/lib/logger.ts 13-74): log and sendLog.  Each log  *)
(* entry has its own chain of sendLog calls; the chains of different       *)
(* entries interleave.                                                     *)

\* private retryAttempts: number = 3
retryAttempts == 3

\* largest number of log entries handed to the transport
MaxLogEntries == 2

\* an entry winston has not handed over yet
NotLogged ==
    [phase |-> "created", attempt |-> 0, posts |-> 0, failures |-> 0,
     callbacks |-> 0, consoleErrors |-> 0, logged |-> "no"]

InitLog ==
    /\ logEntries = [e \in 1..MaxLogEntries |-> NotLogged]
    /\ MergeIdle
    /\ MapIdle
    /\ SigIdle
    /\ FilterIdle
    /\ PIIIdle
    /\ OCRIdle
    /\ PostIdle
    /\ PatternIdle
    /\ PageIdle

LogFrame ==
    /\ UNCHANGED mergeVars
    /\ UNCHANGED mapVars
    /\ UNCHANGED sigVars
    /\ UNCHANGED filterVars
    /\ UNCHANGED piiVars
    /\ UNCHANGED ocrVars
    /\ UNCHANGED postVars
    /\ UNCHANGED patternVars
    /\ UNCHANGED pageVars

\* a transport that retries once more than retryAttempts says
mayRetryOnceMore(attempt) == attempt <= retryAttempts

\* if (attempt < this.retryAttempts), line 61
mayRetry(attempt) == attempt < retryAttempts

\* log(info, callback), 25-48: the emit is scheduled, sendLog(logEntry, 0)
\* runs up to its await, that is the first POST is sent, and the callback is
\* called at once
log(e) ==
    /\ logEntries[e].phase = "created"
    /\ logEntries' = [logEntries EXCEPT ![e] =
           [@ EXCEPT !.logged = "scheduled",
                     !.phase = "posting",
                     !.attempt = 0,
                     !.posts = @ + 1,
                     !.callbacks = @ + 1]]
    /\ LogFrame

\* setImmediate(() => this.emit('logged', info)), 26-28
emitLogged(e) ==
    /\ logEntries[e].logged = "scheduled"
    /\ logEntries' = [logEntries EXCEPT ![e].logged = "emitted"]
    /\ LogFrame

\* the POST of line 52 resolves: sendLog returns
postSucceeds(e) ==
    /\ logEntries[e].phase = "posting"
    /\ logEntries' = [logEntries EXCEPT ![e].phase = "delivered"]
    /\ LogFrame

\* the POST rejects or times out after 5 seconds: the catch of 59-72 sets
\* the retry timer or writes to the console
postFails(e) ==
    /\ logEntries[e].phase = "posting"
    /\ logEntries' = [logEntries EXCEPT ![e] =
           IF mayRetry(@.attempt)
           THEN [@ EXCEPT !.failures = @ + 1, !.phase = "waiting"]
           ELSE [@ EXCEPT !.failures = @ + 1, !.phase = "given up", !.consoleErrors = @ + 1]]
    /\ LogFrame

\* the timer of 62-64 fires: sendLog(logEntry, attempt + 1) sends the next POST
retry(e) ==
    /\ logEntries[e].phase = "waiting"
    /\ logEntries' = [logEntries EXCEPT ![e] =
           [@ EXCEPT !.attempt = @ + 1, !.posts = @ + 1, !.phase = "posting"]]
    /\ LogFrame

NextLog ==
    \E e \in 1..MaxLogEntries :
        \/ log(e)
        \/ emitLogged(e)
        \/ postSucceeds(e)
        \/ postFails(e)
        \/ retry(e)

SpecLog == InitLog /\ [][NextLog]_vars

Logged(e) == logEntries[e].phase # "created"

\* C30: for every log entry HTTPLogTransport calls the winston callback
\* exactly once and without waiting for delivery (it has been called while
\* the first POST is still in flight), makes at most 4 POST attempts (the
\* first plus retryAttempts = 3), sends no POST after the first success, and
\* writes the console fallback exactly once if all 4 attempts failed and
\* never otherwise.
C30_CallbackOnceAtMostFourPosts ==
    /\ [](\A e \in DOMAIN logEntries :
            /\ logEntries[e].callbacks = (IF Logged(e) THEN 1 ELSE 0)
            /\ logEntries[e].posts <= retryAttempts + 1
            /\ logEntries[e].posts =
                   logEntries[e].failures + (IF logEntries[e].phase \in {"posting", "delivered"} THEN 1 ELSE 0)
            /\ logEntries[e].consoleErrors =
                   (IF logEntries[e].failures = retryAttempts + 1 THEN 1 ELSE 0)
            /\ logEntries[e].failures = retryAttempts + 1 => logEntries[e].phase = "given up")
    /\ [][\A e \in DOMAIN logEntries :
              logEntries[e].phase \in {"delivered", "given up"}
                  => /\ logEntries'[e].posts = logEntries[e].posts
                     /\ logEntries'[e].callbacks = logEntries[e].callbacks
                     /\ logEntries'[e].consoleErrors = logEntries[e].consoleErrors]_vars

\* one entry was delivered at its third attempt, the other failed four times
\* and went to the console
C30_Witness ==
    /\ \E e \in DOMAIN logEntries :
           /\ logEntries[e].phase = "delivered"
           /\ logEntries[e].posts = 3
           /\ logEntries[e].callbacks = 1
           /\ logEntries[e].consoleErrors = 0
    /\ \E e \in DOMAIN logEntries :
           /\ logEntries[e].phase = "given up"
           /\ logEntries[e].posts = retryAttempts + 1
           /\ logEntries[e].callbacks = 1
           /\ logEntries[e].consoleErrors = 1

====
